---- MODULE Spec2Model ----
(***************************************************************************)
(* Kue platform: the contact graph (Person, KueUser, Company nodes; KNOWS  *)
(* and WORKS_AT edges), its ingestion, deduplication, scoring and          *)
(* maintenance operations.                                                 *)
(*                                                                         *)
(* Conventions.  Every neo4j.runQuery call is one transaction and is one   *)
(* step of the model, with one exception: the node MERGE of upsertPerson,  *)
(* which Neo4j does not make atomic for a key that no uniqueness           *)
(* constraint covers (scripts/seed-neo4j.ts constrains Person.id only), is *)
(* a match step followed by a write step.  Dates are whole days; scores    *)
(* and breakdown components are kept in hundredths (a component 0.87 is    *)
(* 87, a composite score 68.61 is 6861).                                   *)
(***************************************************************************)
EXTENDS Integers, Sequences, FiniteSets, TLC

VARIABLES
    persons,     \* Person nodes: node id -> properties
    knows,       \* KNOWS edges: edge id -> [from, to, properties]
    users,       \* ids of the KueUser nodes
    companies,   \* Company nodes: set of [name, domain]
    worksAt,     \* WORKS_AT edges: set of <<person id, company>>
    colleagues,  \* COLLEAGUES_WITH edges: set of <<person id, person id>>
    nextPerson,  \* next fresh Person node id (randomUUID)
    nextKnows,   \* next fresh KNOWS edge id
    now,         \* the clock, in days
    proc,        \* the handler each worker is running, its position and locals
    scoreLog,    \* per email: what the last two scoreContact calls read and returned
    calc,        \* input and result of one run of a computation or of a read-only query
    dedup        \* input and result of one deduplicateContacts run

graphVars == <<persons, knows, users, companies, worksAt, colleagues, nextPerson, nextKnows>>
vars == <<persons, knows, users, companies, worksAt, colleagues, nextPerson, nextKnows,
          now, proc, scoreLog, calc, dedup>>

----------------------------------------------------------------------------
(* Values *)

\* null / undefined of an optional string property
NULL == "NULL"
\* a date, a count or a strength that is null
NoNum == -1

Min(a, b) == IF a <= b THEN a ELSE b
Max(a, b) == IF a >= b THEN a ELSE b

\* Math.round(n / d) for d > 0: floor(n/d + 1/2)
RoundDiv(n, d) == (2 * n + d) \div (2 * d)

----------------------------------------------------------------------------
(* Scoring: ScoringService.calculateBreakdown, computeCompositeScore *)

RECENCY_MAX_DAYS == 365
FREQUENCY_MAX == 100
DURATION_MAX_DAYS == 1825

\* WEIGHTS, times 100
WEIGHTS == [recency |-> 30, frequency |-> 30, reciprocity |-> 20,
            diversity |-> 10, duration |-> 10]

\* Math.round(100 * Math.log(c + 1) / Math.log(FREQUENCY_MAX + 1)) for c in 1..99
LogTable ==
  << 15, 24, 30, 35, 39, 42, 45, 48, 50, 52, 54, 56, 57, 59, 60, 61, 63, 64, 65, 66,
     67, 68, 69, 70, 71, 71, 72, 73, 74, 74, 75, 76, 76, 77, 78, 78, 79, 79, 80, 80,
     81, 81, 82, 82, 83, 83, 84, 84, 85, 85, 86, 86, 86, 87, 87, 88, 88, 88, 89, 89,
     89, 90, 90, 90, 91, 91, 91, 92, 92, 92, 93, 93, 93, 94, 94, 94, 94, 95, 95, 95,
     95, 96, 96, 96, 97, 97, 97, 97, 98, 98, 98, 98, 98, 99, 99, 99, 99, 100, 100 >>

\* Math.round(100 * Math.sqrt(n / d)) for n >= 0, d > 0: the k with
\* (k - 1/2)^2 <= 10000 n/d < (k + 1/2)^2
RoundSqrtPct(n, d) ==
    CHOOSE k \in 0..400 :
        /\ 40000 * n < (2 * k + 1) * (2 * k + 1) * d
        /\ k = 0 \/ (2 * k - 1) * (2 * k - 1) * d <= 40000 * n

\* recency = Math.pow(Math.max(0, 1 - daysSinceLast / RECENCY_MAX_DAYS), 0.5), rounded
RecencyClamp(x) == Max(0, x)

Recency(data) ==
    IF data.lastContact = NoNum THEN 0
    ELSE RoundSqrtPct(RecencyClamp(RECENCY_MAX_DAYS - (data.now - data.lastContact)),
                      RECENCY_MAX_DAYS)

Frequency(data) ==
    IF data.interactionCount > 0
    THEN (IF data.interactionCount >= FREQUENCY_MAX THEN 100
          ELSE LogTable[data.interactionCount])
    ELSE 0

Reciprocity(data) ==
    LET totalDirectional == data.emailsSent + data.emailsReceived
        mn == Min(data.emailsSent, data.emailsReceived)
        mx == Max(data.emailsSent, data.emailsReceived)
        meetingBoost == IF data.meetingCount > 0 THEN 20 ELSE 0
    IN  IF totalDirectional > 0 THEN Min(100, RoundDiv(100 * mn, mx) + meetingBoost)
        ELSE IF data.meetingCount > 0 THEN 50
        ELSE 0

\* data.sources is a sequence (p.source); uniqueSources is the set of its elements
UniqueSources(sources) == {sources[i] : i \in DOMAIN sources}

Diversity(data) ==
    LET uniqueSources == UniqueSources(data.sources)
        channelTypes ==
              (IF data.emailsSent > 0 \/ data.emailsReceived > 0 THEN 1 ELSE 0)
            + (IF data.meetingCount > 0 THEN 1 ELSE 0)
            + (IF "linkedin" \in uniqueSources THEN 1 ELSE 0)
            + (IF "google_contacts" \in uniqueSources THEN 1 ELSE 0)
    IN  \* (size/4 + channelTypes/4) / 2, capped at 1, rounded to 2 decimals
        Min(100, RoundDiv(100 * (Cardinality(uniqueSources) + channelTypes), 8))

Duration(data) ==
    IF data.firstContact = NoNum THEN 0
    ELSE Min(100, RoundDiv(100 * (data.now - data.firstContact), DURATION_MAX_DAYS))

calculateBreakdown(data) ==
    [recency     |-> Recency(data),
     frequency   |-> Frequency(data),
     reciprocity |-> Reciprocity(data),
     diversity   |-> Diversity(data),
     duration    |-> Duration(data)]

\* Math.round(score * 100 * 100) / 100, in hundredths
computeCompositeScore(breakdown) ==
      breakdown.recency * WEIGHTS.recency
    + breakdown.frequency * WEIGHTS.frequency
    + breakdown.reciprocity * WEIGHTS.reciprocity
    + breakdown.diversity * WEIGHTS.diversity
    + breakdown.duration * WEIGHTS.duration

NoBreakdown == [recency |-> NoNum, frequency |-> NoNum, reciprocity |-> NoNum,
                diversity |-> NoNum, duration |-> NoNum]

----------------------------------------------------------------------------
(* Strings: the operations the code applies to them, on the strings of the model *)

\* String.prototype.toLowerCase
toLowerCase(s) ==
    CASE s = "John@Acme.com" -> "john@acme.com"
      [] s = "John" -> "john"
      [] s = "JOHN" -> "john"
      [] s = "Doe" -> "doe"
      [] s = "Acme" -> "acme"
      [] s = "ACME" -> "acme"
      [] s = "Ann" -> "ann"
      [] s = "Initech" -> "initech"
      [] OTHER -> s

\* String.prototype.trim
trim(s) ==
    CASE s = "john@acme.com " -> "john@acme.com"
      [] OTHER -> s

\* email.endsWith('@linkedin.placeholder')
isPlaceholderEmail(email) ==
    email \in {"john.doe@linkedin.placeholder", "ann.@linkedin.placeholder"}

\* GraphService.extractDomain: the lower-cased domain, null for a free provider
extractDomain(email) ==
    CASE email = "john@acme.com" -> "acme.com"
      [] email = "John@Acme.com" -> "acme.com"
      [] email = "john@acme.com " -> "acme.com "
      [] email = "ann@initech.io" -> "initech.io"
      [] email = "bob@gmail.com" -> NULL
      [] email = "john.doe@linkedin.placeholder" -> "linkedin.placeholder"
      [] email = "ann.@linkedin.placeholder" -> "linkedin.placeholder"
      [] OTHER -> NULL

\* a || b on optional strings (no property of the model is the empty string)
Or(a, b) == IF a # NULL THEN a ELSE b
\* Cypher COALESCE(a, b)
COALESCE(a, b) == IF a # NULL THEN a ELSE b

ContactFields == {"name", "firstName", "lastName", "phone", "company", "title", "linkedinUrl"}

Contact(email, name, firstName, lastName, phone, company, title, linkedinUrl, source) ==
    [email |-> email, name |-> name, firstName |-> firstName, lastName |-> lastName,
     phone |-> phone, company |-> company, title |-> title,
     linkedinUrl |-> linkedinUrl, source |-> source]

----------------------------------------------------------------------------
(* The graph store: the Cypher of GraphService, on the graph as a value.   *)
(* A graph value g is [persons, knows, users, companies, worksAt,          *)
(* colleagues, nextPerson, nextKnows].                                     *)

Graph == [persons |-> persons, knows |-> knows, users |-> users,
          companies |-> companies, worksAt |-> worksAt, colleagues |-> colleagues,
          nextPerson |-> nextPerson, nextKnows |-> nextKnows]

EmptyGraph == [persons |-> <<>>, knows |-> <<>>, users |-> {}, companies |-> {},
               worksAt |-> {}, colleagues |-> {}, nextPerson |-> 1, nextKnows |-> 1]

SetGraph(g) ==
    /\ persons' = g.persons /\ knows' = g.knows /\ users' = g.users
    /\ companies' = g.companies /\ worksAt' = g.worksAt /\ colleagues' = g.colleagues
    /\ nextPerson' = g.nextPerson /\ nextKnows' = g.nextKnows

\* f without the keys in S
Without(f, S) == [k \in DOMAIN f \ S |-> f[k]]
\* f with key k bound to v
With(f, k, v) == [x \in DOMAIN f \cup {k} |-> IF x = k THEN v ELSE f[x]]

\* MATCH (p:Person {email: $email, ownerId: $ownerId})
PersonsByEmail(g, email, ownerId) ==
    {id \in DOMAIN g.persons :
        g.persons[id].email = email /\ g.persons[id].ownerId = ownerId}

MergePersonMatch_none(g, contact, ownerId) == {}

\* the match half of MERGE (p:Person {email: $email, ownerId: $ownerId})
MergePersonMatch(g, contact, ownerId) == PersonsByEmail(g, contact.email, ownerId)

\* ON CREATE SET of upsertPerson
NewPerson(contact, ownerId) ==
    [email |-> contact.email, ownerId |-> ownerId,
     name |-> COALESCE(contact.name, contact.email),
     firstName |-> contact.firstName, lastName |-> contact.lastName,
     phone |-> contact.phone, title |-> contact.title, company |-> contact.company,
     linkedinUrl |-> contact.linkedinUrl, source |-> <<contact.source>>]

\* ON MATCH SET of upsertPerson
UpdatedPerson(p, contact) ==
    [p EXCEPT !.name = COALESCE(contact.name, p.name),
              !.firstName = COALESCE(contact.firstName, p.firstName),
              !.lastName = COALESCE(contact.lastName, p.lastName),
              !.phone = COALESCE(contact.phone, p.phone),
              !.title = COALESCE(contact.title, p.title),
              !.company = COALESCE(contact.company, p.company),
              !.linkedinUrl = COALESCE(contact.linkedinUrl, p.linkedinUrl),
              !.source = IF contact.source \notin UniqueSources(p.source)
                         THEN Append(p.source, contact.source) ELSE p.source]

\* the write half of the MERGE of upsertPerson, for the nodes `seen` by its match
\* half: ON CREATE when it matched none, ON MATCH on every node it matched
upsertPersonWrite(g, contact, ownerId, seen) ==
    IF seen = {}
    THEN [g EXCEPT !.persons = With(g.persons, g.nextPerson, NewPerson(contact, ownerId)),
                   !.nextPerson = g.nextPerson + 1]
    ELSE [g EXCEPT !.persons = [id \in DOMAIN g.persons |->
                                  IF id \in seen THEN UpdatedPerson(g.persons[id], contact)
                                  ELSE g.persons[id]]]

\* upsertPerson as one transaction
upsertPerson(g, contact, ownerId) ==
    upsertPersonWrite(g, contact, ownerId, MergePersonMatch(g, contact, ownerId))

\* ensureKueUser: MERGE (u:KueUser {id: $userId})
ensureKueUser(g, userId) == [g EXCEPT !.users = g.users \cup {userId}]

\* the KNOWS edges (u)-[r:KNOWS]->(p)
KnowsBetween(g, userId, personId) ==
    {e \in DOMAIN g.knows : g.knows[e].from = userId /\ g.knows[e].to = personId}

MergeKnowsMatch_none(g, userId, personId) == {}

\* the match half of MERGE (u)-[r:KNOWS]->(p)
MergeKnowsMatch(g, userId, personId) == KnowsBetween(g, userId, personId)

\* ON CREATE SET of upsertKnowsRelationship
NewKnows(userId, personId, source, t) ==
    [from |-> userId, to |-> personId, source |-> source, strength |-> 0,
     scoreBreakdown |-> NoBreakdown, scoredAt |-> NoNum,
     interactionCount |-> 1, firstContact |-> t, lastContact |-> t,
     emailsSent |-> NoNum, emailsReceived |-> NoNum, meetingCount |-> NoNum]

\* ON MATCH SET of upsertKnowsRelationship; null + 1 and null <> $source are null
UpdatedKnows(r, source, t) ==
    [r EXCEPT !.interactionCount = IF r.interactionCount = NoNum THEN NoNum
                                   ELSE r.interactionCount + 1,
              !.lastContact = t,
              !.source = IF r.source # NULL /\ r.source # source THEN source ELSE r.source]

\* MERGE (u)-[r:KNOWS]->(p) for one person node, with the SET clauses of upsertKnowsRelationship
MergeKnows(g, userId, personId, source, t) ==
    LET matched == MergeKnowsMatch(g, userId, personId)
    IN  IF matched = {}
        THEN [g EXCEPT !.knows = With(g.knows, g.nextKnows, NewKnows(userId, personId, source, t)),
                       !.nextKnows = g.nextKnows + 1]
        ELSE [g EXCEPT !.knows = [e \in DOMAIN g.knows |->
                                    IF e \in matched THEN UpdatedKnows(g.knows[e], source, t)
                                    ELSE g.knows[e]]]

RECURSIVE MergeKnowsAll(_, _, _, _, _)
MergeKnowsAll(g, userId, ids, source, t) ==
    IF ids = {} THEN g
    ELSE LET id == CHOOSE x \in ids : \A y \in ids : x <= y
         IN  MergeKnowsAll(MergeKnows(g, userId, id, source, t), userId, ids \ {id}, source, t)

upsertKnowsRelationship_anyOwner(g, userId, personEmail, source, t) ==
    IF userId \notin g.users THEN g
    ELSE MergeKnowsAll(g, userId, {id \in DOMAIN g.persons : g.persons[id].email = personEmail},
                       source, t)

\* upsertKnowsRelationship: one MERGE per row of the two MATCH clauses
upsertKnowsRelationship(g, userId, personEmail, source, t) ==
    IF userId \notin g.users THEN g
    ELSE MergeKnowsAll(g, userId, PersonsByEmail(g, personEmail, userId), source, t)

\* upsertCompany: MERGE (c:Company {domain}) or, with no domain, {name}
CompanyMatch(g, name, domain) ==
    IF domain # NULL THEN {c \in g.companies : c.domain = domain}
    ELSE {c \in g.companies : c.name = name}

upsertCompany(g, name, domain) ==
    LET matched == CompanyMatch(g, name, domain)
    IN  IF matched = {}
        THEN [g EXCEPT !.companies = g.companies \cup {[name |-> name, domain |-> domain]}]
        ELSE [g EXCEPT !.companies = (g.companies \ matched)
                                        \cup {[c EXCEPT !.name = name] : c \in matched},
                       !.worksAt = {IF x[2] \in matched THEN <<x[1], [x[2] EXCEPT !.name = name]>>
                                    ELSE x : x \in g.worksAt}]

\* upsertWorksAt: MERGE (p)-[r:WORKS_AT]->(c) for every matching person and company
upsertWorksAt(g, personEmail, companyName, ownerId) ==
    [g EXCEPT !.worksAt = g.worksAt \cup
        {<<id, c>> : id \in PersonsByEmail(g, personEmail, ownerId),
                     c \in {c \in g.companies : c.name = companyName}}]

----------------------------------------------------------------------------
(* DedupService.deduplicateContacts *)

\* mutant of mergeContacts: the earlier record's values win
mergeContacts_existingWins(existing, incoming) ==
    [email |-> existing.email,
     name |-> Or(existing.name, incoming.name),
     firstName |-> Or(existing.firstName, incoming.firstName),
     lastName |-> Or(existing.lastName, incoming.lastName),
     phone |-> Or(existing.phone, incoming.phone),
     company |-> Or(existing.company, incoming.company),
     title |-> Or(existing.title, incoming.title),
     linkedinUrl |-> Or(existing.linkedinUrl, incoming.linkedinUrl),
     source |-> existing.source]

\* Merge two contacts, preferring non-null values from the newer one
mergeContacts(existing, incoming) ==
    [email |-> existing.email,
     name |-> Or(incoming.name, existing.name),
     firstName |-> Or(incoming.firstName, existing.firstName),
     lastName |-> Or(incoming.lastName, existing.lastName),
     phone |-> Or(incoming.phone, existing.phone),
     company |-> Or(incoming.company, existing.company),
     title |-> Or(incoming.title, existing.title),
     linkedinUrl |-> Or(incoming.linkedinUrl, existing.linkedinUrl),
     source |-> existing.source]

\* mutant of enrichExistingContact: the incoming email is kept
enrichExistingContact_incomingEmail(existing, incoming) ==
    [email |-> incoming.email,
     name |-> Or(incoming.name, existing.name),
     firstName |-> Or(incoming.firstName, existing.firstName),
     lastName |-> Or(incoming.lastName, existing.lastName),
     phone |-> Or(incoming.phone, existing.phone),
     company |-> Or(incoming.company, existing.company),
     title |-> Or(incoming.title, existing.title),
     linkedinUrl |-> Or(incoming.linkedinUrl, existing.linkedinUrl),
     source |-> incoming.source]

\* Enrich an existing contact with data from a new source
enrichExistingContact(existing, incoming) ==
    [email |-> existing.email,
     name |-> Or(incoming.name, existing.name),
     firstName |-> Or(incoming.firstName, existing.firstName),
     lastName |-> Or(incoming.lastName, existing.lastName),
     phone |-> Or(incoming.phone, existing.phone),
     company |-> Or(incoming.company, existing.company),
     title |-> Or(incoming.title, existing.title),
     linkedinUrl |-> Or(incoming.linkedinUrl, existing.linkedinUrl),
     source |-> incoming.source]

\* the key of the emailMap of step 1
emailKey(contact) == trim(toLowerCase(contact.email))

\* Step 1: the emailMap after the contacts, as the sequence of its entries in
\* insertion order; `from` (not in the code) lists the positions merged into an entry
RECURSIVE emailMapOf(_, _, _)
emailMapOf(contacts, i, map) ==
    IF i > Len(contacts) THEN map
    ELSE LET contact == contacts[i]
             key == emailKey(contact)
             hit == {j \in DOMAIN map : map[j].key = key}
         IN  IF hit # {}
             THEN LET j == CHOOSE x \in hit : TRUE
                  IN  emailMapOf(contacts, i + 1,
                        [map EXCEPT ![j] = [key |-> key,
                                            contact |-> mergeContacts(map[j].contact, contact),
                                            from |-> Append(map[j].from, i)]])
             ELSE emailMapOf(contacts, i + 1,
                        Append(map, [key |-> key, contact |-> contact, from |-> <<i>>]))

\* LIMIT 1 of a query with no ORDER BY: one of the rows, which one is up to the store
Limit1(ids, pick) ==
    IF pick = "lowest" THEN CHOOSE x \in ids : \A y \in ids : x <= y
    ELSE CHOOSE x \in ids : \A y \in ids : x >= y

Picks == {"lowest", "highest"}

\* the Contact that findByEmail / findByNameAndCompany / findByDomainAndName build from a row
RowContact(p) ==
    [email |-> p.email, name |-> p.name, firstName |-> p.firstName,
     lastName |-> p.lastName, phone |-> p.phone, company |-> p.company,
     title |-> p.title, linkedinUrl |-> p.linkedinUrl,
     source |-> IF Len(p.source) > 0 THEN p.source[1] ELSE NULL]

\* toLower(p.x) = toLower($x) in Cypher: null when either side is null
LowerEq(a, b) == a # NULL /\ b # NULL /\ toLowerCase(a) = toLowerCase(b)

findByEmail(g, email, userId) == PersonsByEmail(g, toLowerCase(email), userId)

findByNameAndCompany(g, firstName, company, userId) ==
    {id \in DOMAIN g.persons :
        /\ g.persons[id].ownerId = userId
        /\ LowerEq(g.persons[id].firstName, firstName)
        /\ LowerEq(g.persons[id].company, company)}

findByDomainAndName_anyCompany(g, firstName, lastName, company, userId) ==
    {id \in DOMAIN g.persons :
        /\ g.persons[id].ownerId = userId
        /\ LowerEq(g.persons[id].firstName, firstName)
        /\ LowerEq(g.persons[id].lastName, lastName)}

findByDomainAndName(g, firstName, lastName, company, userId) ==
    {id \in DOMAIN g.persons :
        /\ g.persons[id].ownerId = userId
        /\ LowerEq(g.persons[id].company, company)
        /\ LowerEq(g.persons[id].firstName, firstName)
        /\ LowerEq(g.persons[id].lastName, lastName)}

\* mutant of unmatchedContact: an unmatched placeholder contact is kept as new
unmatchedContact_keepPlaceholder(entry, isPlaceholder) ==
    <<[contact |-> entry.contact, key |-> entry.key, match |-> "new", person |-> 0]>>

\* No match found: a new contact, skipped when its email is a placeholder
unmatchedContact(entry, isPlaceholder) ==
    IF isPlaceholder THEN <<>>
    ELSE <<[contact |-> entry.contact, key |-> entry.key, match |-> "new", person |-> 0]>>

\* Step 2 for one contact of internalDeduped: the sequence (of length 0 or 1) it adds
\* to finalContacts.  `match` and `person` (not in the code) say which lookup hit
\* and which node it returned.
dedupOne(g, entry, userId, pick) ==
    LET contact == entry.contact
        isPlaceholder == isPlaceholderEmail(contact.email)
        existingByEmail == IF isPlaceholder THEN {} ELSE findByEmail(g, contact.email, userId)
        tryFuzzy == isPlaceholder /\ contact.firstName # NULL /\ contact.company # NULL
        fuzzyMatch == IF tryFuzzy
                      THEN findByNameAndCompany(g, contact.firstName, contact.company, userId)
                      ELSE {}
        domainMatch == IF tryFuzzy /\ contact.lastName # NULL
                       THEN findByDomainAndName(g, contact.firstName, contact.lastName,
                                                contact.company, userId)
                       ELSE {}
        Hit(ids, how) ==
            LET id == Limit1(ids, pick)
            IN  <<[contact |-> enrichExistingContact(RowContact(g.persons[id]), contact),
                   key |-> entry.key, match |-> how, person |-> id]>>
    IN  IF existingByEmail # {} THEN Hit(existingByEmail, "email")
        ELSE IF fuzzyMatch # {} THEN Hit(fuzzyMatch, "nameCompany")
        ELSE IF domainMatch # {} THEN Hit(domainMatch, "domainName")
        ELSE unmatchedContact(entry, isPlaceholder)

RECURSIVE dedupAll(_, _, _, _, _)
dedupAll(g, map, i, userId, pick) ==
    IF i > Len(map) THEN <<>>
    ELSE dedupOne(g, map[i], userId, pick) \o dedupAll(g, map, i + 1, userId, pick)

\* finalContacts, each with the lookup that produced it
dedupEntries(g, contacts, userId, pick) ==
    dedupAll(g, emailMapOf(contacts, 1, <<>>), 1, userId, pick)

deduplicateContacts(g, contacts, userId, pick) ==
    LET entries == dedupEntries(g, contacts, userId, pick)
    IN  [i \in DOMAIN entries |-> entries[i].contact]

----------------------------------------------------------------------------
(* GraphService.batchIngestContacts with no other request running and no    *)
(* failing query: the four upserts of each contact, in order                *)

ingestContact(g, contact, userId, t) ==
    LET g1 == upsertPerson(g, contact, userId)
        g2 == upsertKnowsRelationship(g1, userId, contact.email, contact.source, t)
    IN  IF contact.company # NULL
        THEN upsertWorksAt(upsertCompany(g2, contact.company, extractDomain(contact.email)),
                           contact.email, contact.company, userId)
        ELSE g2

RECURSIVE ingestFrom(_, _, _, _, _)
ingestFrom(g, contacts, i, userId, t) ==
    IF i > Len(contacts) THEN g
    ELSE ingestFrom(ingestContact(g, contacts[i], userId, t), contacts, i + 1, userId, t)

batchIngestContacts(g, contacts, userId, t) ==
    ingestFrom(ensureKueUser(g, userId), contacts, 1, userId, t)

----------------------------------------------------------------------------
(* Deduplication of a batch against a graph: SpecDedup.  The graph is built *)
(* by the sync path (batchIngestContacts of connector contacts), then one   *)
(* import batch is deduplicated against it and its output ingested.         *)

Users == {"u1", "u2"}

\* contacts as the Gmail / Google Contacts / Calendar connectors produce them:
\* lower-cased trimmed real emails
SyncContacts ==
    { Contact("john@acme.com", "John Doe", "John", NULL, NULL, "Acme", NULL, NULL, "google_contacts"),
      Contact("john@acme.com", NULL, NULL, NULL, "555-0100", NULL, "Engineer", NULL, "gmail"),
      Contact("bob@gmail.com", "John Doe", "JOHN", "Doe", NULL, "ACME", "CEO", NULL, "gmail") }

\* records of an import batch
ImportContacts ==
    { Contact("john.doe@linkedin.placeholder", "John Doe", "John", "Doe", NULL, "Acme", "CTO", "li/john", "linkedin"),
      Contact("john.doe@linkedin.placeholder", "John Doe", "John", "Doe", NULL, NULL, NULL, NULL, "linkedin"),
      Contact("John@Acme.com", NULL, NULL, NULL, NULL, "ACME", "VP", NULL, "google_contacts"),
      Contact("john@acme.com", "Johnny", NULL, NULL, NULL, NULL, NULL, NULL, "gmail"),
      Contact("john@acme.com ", NULL, NULL, NULL, NULL, "Initech", NULL, NULL, "linkedin") }

\* the user whose import is deduplicated; the graph also holds the other users' contacts
Importer == "u1"

\* longest import batch
MaxBatch == 2
\* most Person nodes of the graph a batch is deduplicated against
MaxExisting == 2
\* most contacts synced before the import
MaxSyncs == 3

RECURSIVE SumCounts(_, _)
SumCounts(g, es) ==
    IF es = {} THEN 0
    ELSE LET e == CHOOSE x \in es : TRUE
         IN  g.knows[e].interactionCount + SumCounts(g, es \ {e})

\* every sync so far is one observation on one KNOWS edge
SyncsDone(g) == SumCounts(g, DOMAIN g.knows)

SeqsUpTo(S, n) == UNION {[1..k -> S] : k \in 1..n}

NoDedup == [stage |-> "graph"]

InitDedup ==
    /\ persons = <<>> /\ knows = <<>> /\ users = {} /\ companies = {} /\ worksAt = {}
    /\ colleagues = {}
    /\ nextPerson = 1 /\ nextKnows = 1 /\ now = 0
    /\ proc = <<>> /\ scoreLog = <<>> /\ calc = <<>>
    /\ dedup = NoDedup

\* a sync of one contact, before the import
SyncOne ==
    /\ dedup.stage = "graph"
    /\ \E contact \in SyncContacts, userId \in Users :
          \E g \in {batchIngestContacts(Graph, <<contact>>, userId, now)} :
              /\ Cardinality(DOMAIN g.persons) <= MaxExisting
              /\ SyncsDone(g) <= MaxSyncs
              /\ SetGraph(g)
    /\ UNCHANGED <<now, proc, scoreLog, calc, dedup>>

\* an import with no other request running (ContactsService.processImportSync):
\* deduplicateContacts(contacts, userId), then batchIngestContacts of its output
ImportBatch ==
    /\ dedup.stage = "graph"
    /\ \E contacts \in SeqsUpTo(ImportContacts, MaxBatch), pick \in Picks :
          LET output == deduplicateContacts(Graph, contacts, Importer, pick)
          IN  /\ dedup' = [stage |-> "ingested", contacts |-> contacts, userId |-> Importer,
                           map |-> emailMapOf(contacts, 1, <<>>),
                           entries |-> dedupEntries(Graph, contacts, Importer, pick),
                           output |-> output,
                           before |-> persons]
              /\ SetGraph(batchIngestContacts(Graph, output, Importer, now))
    /\ UNCHANGED <<now, proc, scoreLog, calc>>

NextDedup == SyncOne \/ ImportBatch

SpecDedup == InitDedup /\ [][NextDedup]_vars

\* the values of field f that are not null, in batch order, of the records at positions `from`
RECURSIVE NonNullValues(_, _, _)
NonNullValues(contacts, from, f) ==
    IF from = <<>> THEN <<>>
    ELSE LET v == contacts[Head(from)][f]
         IN  (IF v # NULL THEN <<v>> ELSE <<>>) \o NonNullValues(contacts, Tail(from), f)

Last(seq) == seq[Len(seq)]

BatchKeys == {emailKey(dedup.contacts[i]) : i \in DOMAIN dedup.contacts}
PositionsOf(key) == {i \in DOMAIN dedup.contacts : emailKey(dedup.contacts[i]) = key}
\* the positions of a set of batch records, in batch order
RECURSIVE InOrder(_)
InOrder(S) ==
    IF S = {} THEN <<>>
    ELSE LET i == CHOOSE x \in S : \A y \in S : x <= y IN <<i>> \o InOrder(S \ {i})

C8_PlaceholderWithoutCompanyDropped ==
    dedup.stage # "graph" =>
        /\ \A i \in DOMAIN dedup.map :
              (isPlaceholderEmail(dedup.map[i].contact.email)
                 /\ dedup.map[i].contact.company = NULL)
              => \A j \in DOMAIN dedup.entries : dedup.entries[j].key # dedup.map[i].key
        /\ \A i \in DOMAIN dedup.contacts :
              (isPlaceholderEmail(dedup.contacts[i].email) /\ dedup.contacts[i].company = NULL)
              => /\ \A j \in DOMAIN dedup.output :
                       dedup.output[j].email # dedup.contacts[i].email
                 /\ \A id \in DOMAIN persons : persons[id].email # dedup.contacts[i].email

\* C8 witness: a batch holding only a placeholder contact with a first name and no
\* company has been deduplicated, against a graph holding a Person of that first
\* name, and ingested
C8_Witness ==
    /\ dedup.stage = "ingested"
    /\ Len(dedup.contacts) = 1
    /\ isPlaceholderEmail(dedup.contacts[1].email)
    /\ dedup.contacts[1].company = NULL
    /\ \E id \in DOMAIN dedup.before :
          /\ dedup.before[id].ownerId = dedup.userId
          /\ LowerEq(dedup.before[id].firstName, dedup.contacts[1].firstName)
    /\ dedup.output = <<>>

\* the record the claim expects for incoming contact m matched to existing Person p
ExpectedOnMatch(p, m) ==
    [f \in ContactFields \cup {"email", "source"} |->
        IF f = "email" THEN p.email
        ELSE IF f = "source" THEN m.source
        ELSE IF m[f] # NULL THEN m[f] ELSE p[f]]

\* the Persons of the graph that match incoming contact m: by exact email, or for a
\* placeholder contact by first name + company
MatchesOf(before, m, userId) ==
    {id \in DOMAIN before :
        /\ before[id].ownerId = userId
        /\ IF isPlaceholderEmail(m.email)
           THEN LowerEq(before[id].firstName, m.firstName) /\ LowerEq(before[id].company, m.company)
           ELSE before[id].email = toLowerCase(m.email)}

\* C9: whenever deduplicateContacts matches an incoming contact to an existing Person
\* (by exact email, or for a placeholder contact by first name + company) the output
\* record carries the existing Person's email, and every other field is the incoming
\* value when it is non-null and the existing value otherwise.
C9_MatchKeepsEmailIncomingWins ==
    dedup.stage # "graph" =>
        \A i \in DOMAIN dedup.map :
            LET m == dedup.map[i].contact
                matches == MatchesOf(dedup.before, m, dedup.userId)
            IN  matches # {} =>
                  \E j \in DOMAIN dedup.entries :
                      /\ dedup.entries[j].key = dedup.map[i].key
                      /\ \E id \in matches :
                            dedup.output[j] = ExpectedOnMatch(dedup.before[id], m)

\* C9 witness: a placeholder contact matched a Person by first name + company; the
\* output carries the Person's email, the incoming title over the Person's and the
\* Person's phone, which the incoming contact lacks
C9_Witness ==
    /\ dedup.stage = "ingested"
    /\ \E j \in DOMAIN dedup.entries :
          /\ dedup.entries[j].match = "nameCompany"
          /\ dedup.before[dedup.entries[j].person].title = "Engineer"
          /\ dedup.output[j].email = "john@acme.com"
          /\ dedup.output[j].title = "CTO"
          /\ dedup.output[j].phone = "555-0100"

----------------------------------------------------------------------------
(* Ingestion calls one after the other: SpecSeq.  Any caller, any owner,    *)
(* any contact, in any order; each call runs to completion before the next. *)

\* contacts of any origin, an un-normalised email included
AnyContacts ==
    { Contact("john@acme.com", "John Doe", "John", NULL, NULL, "Acme", NULL, NULL, "google_contacts"),
      Contact("john@acme.com", NULL, NULL, NULL, "555-0100", NULL, "Engineer", NULL, "gmail"),
      Contact("John@Acme.com", NULL, NULL, NULL, NULL, "ACME", "VP", NULL, "linkedin") }

InitSeq ==
    /\ persons = <<>> /\ knows = <<>> /\ users = {} /\ companies = {} /\ worksAt = {}
    /\ colleagues = {}
    /\ nextPerson = 1 /\ nextKnows = 1 /\ now = 0
    /\ proc = <<>> /\ scoreLog = <<>> /\ calc = <<>> /\ dedup = <<>>

\* GraphService.upsertPerson(contact, ownerId)
UpsertPersonCall ==
    /\ \E contact \in AnyContacts, ownerId \in Users :
          \E g \in {upsertPerson(Graph, contact, ownerId)} :
              /\ Cardinality(DOMAIN g.persons) <= MaxExisting
              /\ SetGraph(g)
    /\ UNCHANGED <<now, proc, scoreLog, calc, dedup>>

\* GraphService.batchIngestContacts(contacts, userId, userEmail)
BatchIngestCall ==
    /\ \E contacts \in SeqsUpTo(AnyContacts, MaxBatch), userId \in Users :
          \E g \in {batchIngestContacts(Graph, contacts, userId, now)} :
              /\ Cardinality(DOMAIN g.persons) <= MaxExisting
              /\ SyncsDone(g) <= MaxSyncs
              /\ SetGraph(g)
    /\ UNCHANGED <<now, proc, scoreLog, calc, dedup>>

NextSeq == UpsertPersonCall \/ BatchIngestCall

SpecSeq == InitSeq /\ [][NextSeq]_vars

\* C1: after any sequence of upsertPerson / batchIngestContacts calls (any owners,
\* any contacts, any order) no two Person nodes with the same ownerId have the same
\* email.
C1_EmailOwnerUnique ==
    \A a, b \in DOMAIN persons :
        (persons[a].email = persons[b].email /\ persons[a].ownerId = persons[b].ownerId)
            => a = b

\* C1 witness: a Person upserted again from a second source (its source list has two
\* tags) while another owner holds a Person with the same email
C1_Witness ==
    \E a, b \in DOMAIN persons :
        /\ persons[a].email = persons[b].email
        /\ persons[a].ownerId # persons[b].ownerId
        /\ Len(persons[a].source) >= 2

----------------------------------------------------------------------------
(* ScoringService on the graph *)

\* toNumber(x) || 0
toNumber(x) == IF x = NoNum THEN 0 ELSE x

\* the fields a scoring run reads from one KNOWS edge and its Person, unconverted
RawCounters(g, e) ==
    [interactionCount |-> g.knows[e].interactionCount,
     lastContact |-> g.knows[e].lastContact, firstContact |-> g.knows[e].firstContact,
     emailsSent |-> g.knows[e].emailsSent, emailsReceived |-> g.knows[e].emailsReceived,
     meetingCount |-> g.knows[e].meetingCount,
     sources |-> g.persons[g.knows[e].to].source]

ScoreData_fromStrength(raw, strength, t) ==
    [now |-> t, lastContact |-> raw.lastContact, firstContact |-> raw.firstContact,
     interactionCount |-> toNumber(raw.interactionCount) + toNumber(strength) \div 100,
     emailsSent |-> toNumber(raw.emailsSent), emailsReceived |-> toNumber(raw.emailsReceived),
     meetingCount |-> toNumber(raw.meetingCount),
     sources |-> IF raw.sources = NULL THEN <<>> ELSE raw.sources]

\* the argument of calculateBreakdown built from one record of the fetch query;
\* the stored strength is not among the fields the query returns
ScoreData(raw, strength, t) ==
    [now |-> t, lastContact |-> raw.lastContact, firstContact |-> raw.firstContact,
     interactionCount |-> toNumber(raw.interactionCount),
     emailsSent |-> toNumber(raw.emailsSent), emailsReceived |-> toNumber(raw.emailsReceived),
     meetingCount |-> toNumber(raw.meetingCount),
     sources |-> IF raw.sources = NULL THEN <<>> ELSE raw.sources]

\* score and breakdown of one fetched record at clock reading t
ScoreOf(g, e, t) ==
    LET breakdown == calculateBreakdown(ScoreData(RawCounters(g, e), g.knows[e].strength, t))
    IN  [score |-> computeCompositeScore(breakdown), breakdown |-> breakdown]

\* MATCH (u:KueUser {id: $userId})-[r:KNOWS]->(p:Person {ownerId: $userId})
EdgesOf(g, userId) ==
    {e \in DOMAIN g.knows :
        /\ userId \in g.users /\ g.knows[e].from = userId
        /\ g.persons[g.knows[e].to].ownerId = userId}

\* MATCH (u:KueUser {id: $userId})-[r:KNOWS]->(p:Person {email: $personEmail, ownerId: $userId})
EdgesByEmail(g, userId, personEmail) ==
    {e \in EdgesOf(g, userId) : g.persons[g.knows[e].to].email = personEmail}

\* SET r.strength = $score, r.scoreBreakdown = $breakdownJson, r.scoredAt = datetime()
SetScore(g, edges, result, t) ==
    [g EXCEPT !.knows = [e \in DOMAIN g.knows |->
        IF e \in edges
        THEN [g.knows[e] EXCEPT !.strength = result.score,
                                !.scoreBreakdown = result.breakdown, !.scoredAt = t]
        ELSE g.knows[e]]]

\* scoreAllContacts: one ScoreResult per fetched record, keyed by personId
allScoresOf(g, userId, t) ==
    LET edges == EdgesOf(g, userId)
        ids == {g.knows[e].to : e \in edges}
    IN  [id \in ids |->
            ScoreOf(g, CHOOSE e \in edges : g.knows[e].to = id /\
                         \A x \in edges : g.knows[x].to = id => x <= e, t)]

\* batchUpdateScores: UNWIND $scores, MATCH the edge by s.personId, SET
RECURSIVE batchUpdateScores(_, _, _, _, _)
batchUpdateScores(g, userId, scores, ids, t) ==
    IF ids = {} THEN g
    ELSE LET id == CHOOSE x \in ids : TRUE
             edges == {e \in EdgesOf(g, userId) : g.knows[e].to = id}
         IN  batchUpdateScores(SetScore(g, edges, scores[id], t), userId, scores,
                               ids \ {id}, t)

----------------------------------------------------------------------------
(* DedupService.findAndMergeDuplicates *)

\* find_email_dupes: the emails of the user's Person nodes that two or more share
DupEmails(g, userId) ==
    {g.persons[a].email : a \in {a \in DOMAIN g.persons :
        /\ g.persons[a].ownerId = userId
        /\ \E b \in DOMAIN g.persons \ {a} : /\ g.persons[b].ownerId = userId
                                             /\ g.persons[b].email = g.persons[a].email}}

\* find_name_dupes: the groups of two or more of the user's Person nodes with the same
\* lower-cased first name and company (at most 100 of them; the model has fewer)
NameDupes(g, userId) ==
    {s \in {findByNameAndCompany(g, g.persons[a].firstName, g.persons[a].company, userId)
               : a \in {a \in DOMAIN g.persons : g.persons[a].ownerId = userId}} :
        Cardinality(s) > 1}

DupGroups_withNameDupes(g, userId) ==
    {PersonsByEmail(g, m, userId) : m \in DupEmails(g, userId)} \cup NameDupes(g, userId)

\* the groups findAndMergeDuplicates hands to mergePersonNodes: those of
\* find_email_dupes; those of find_name_dupes are counted and logged
DupGroups(g, userId) == {PersonsByEmail(g, m, userId) : m \in DupEmails(g, userId)}

\* the KNOWS edges (u:KueUser)-[r:KNOWS]->(dupe)
EdgesTo(g, personId) == {e \in DOMAIN g.knows : g.knows[e].to = personId}

\* MERGE (u)-[:KNOWS]->(keep) with no SET clause: an edge created here has no property
BareKnows(userId, personId) ==
    [from |-> userId, to |-> personId, source |-> NULL, strength |-> NoNum,
     scoreBreakdown |-> NoBreakdown, scoredAt |-> NoNum,
     interactionCount |-> NoNum, firstContact |-> NoNum, lastContact |-> NoNum,
     emailsSent |-> NoNum, emailsReceived |-> NoNum, meetingCount |-> NoNum]

MergeBareAll_none(g, userIds, keepId) == g

RECURSIVE MergeBareAll(_, _, _)
MergeBareAll(g, userIds, keepId) ==
    IF userIds = {} THEN g
    ELSE LET u == CHOOSE x \in userIds : TRUE
             g1 == IF KnowsBetween(g, u, keepId) # {} THEN g
                   ELSE [g EXCEPT !.knows = With(g.knows, g.nextKnows, BareKnows(u, keepId)),
                                  !.nextKnows = g.nextKnows + 1]
         IN  MergeBareAll(g1, userIds \ {u}, keepId)

\* the rows that reach DETACH DELETE dupe: those left by WHERE u IS NOT NULL
dupeDeleted(rows) == rows # {}

deletedNodes_both(keepId, removeId) == {keepId, removeId}

\* WITH dupe DETACH DELETE dupe
deletedNodes(keepId, removeId) == {removeId}

\* the merge_person_nodes query for one removeId
mergePersonNode(g, keepId, removeId, userId) ==
    IF ~(/\ keepId \in DOMAIN g.persons /\ g.persons[keepId].ownerId = userId
         /\ removeId \in DOMAIN g.persons /\ g.persons[removeId].ownerId = userId)
    THEN g
    ELSE LET rows == EdgesTo(g, removeId)
             us == {g.knows[e].from : e \in rows}
             \* SET keep.source = keep.source + dupe.source
             g1 == [g EXCEPT !.persons[keepId].source =
                                g.persons[keepId].source \o g.persons[removeId].source]
             \* DELETE r
             g2 == [g1 EXCEPT !.knows = Without(g1.knows, rows)]
             \* MERGE (u)-[:KNOWS]->(keep), once per row
             g3 == MergeBareAll(g2, us, keepId)
         IN  IF dupeDeleted(rows)
             THEN [g3 EXCEPT !.persons = Without(g3.persons, deletedNodes(keepId, removeId)),
                             !.knows = Without(g3.knows,
                                 {e \in DOMAIN g3.knows :
                                     g3.knows[e].to \in deletedNodes(keepId, removeId)}),
                             !.worksAt = {x \in g3.worksAt :
                                             x[1] \notin deletedNodes(keepId, removeId)},
                             !.colleagues = {x \in g3.colleagues :
                                             /\ x[1] \notin deletedNodes(keepId, removeId)
                                             /\ x[2] \notin deletedNodes(keepId, removeId)}]
             ELSE g3

----------------------------------------------------------------------------
(* EnrichmentService.executeEnrichment with the fallback enrichment *)

\* domain.split('.')[0], first letter upper-cased
companyGuess(domain) ==
    CASE domain = "acme.com" -> "Acme"
      [] domain = "initech.io" -> "Initech"
      [] OTHER -> NULL

\* EnrichmentService.extractDomain: as GraphService's, with linkedin.placeholder
\* among the free providers
enrichmentDomain(email) == IF isPlaceholderEmail(email) THEN NULL ELSE extractDomain(email)

\* applyEnrichmentData of the fallback data, then enrichCompany
executeEnrichment(g, personId, userId) ==
    LET p == g.persons[personId]
        domain == enrichmentDomain(p.email)
    IN  IF domain # NULL /\ p.company = NULL
        THEN [g EXCEPT !.persons[personId].company = companyGuess(domain),
                       !.companies = {IF c.name = companyGuess(domain) /\ c.domain = NULL
                                      THEN [c EXCEPT !.domain = domain] ELSE c
                                      : c \in g.companies}]
        ELSE g

----------------------------------------------------------------------------
(* The handlers running concurrently on one user's graph: Spec.  Two sync   *)
(* requests (batchIngestContacts), one run of the enrich-contact function   *)
(* (executeEnrichment, then scoreContact) and one run of the daily          *)
(* maintenance function (scoreAllContacts, findAndMergeDuplicates,          *)
(* findStaleContacts), whose concurrency limit is 1.  Every query sees the  *)
(* user's nodes only (ownerId is in every match), so one user is enough.    *)
(* The clock stands still in Spec; it advances in SpecRescore, where one    *)
(* sync request after the other and one enrich-contact run after the other  *)
(* are served.                                                              *)

Owner == "u1"

IngestWorkers == {"i1", "i2"}

\* the contacts the sync requests carry
RaceContacts ==
    { Contact("john@acme.com", "John Doe", "John", NULL, NULL, NULL, NULL, NULL, "gmail"),
      Contact("john@acme.com", NULL, NULL, NULL, NULL, "Acme", NULL, NULL, "google_contacts") }

\* the batches the sync requests carry
SyncBatches ==
    {<<c>> : c \in RaceContacts} \cup
    {<<a, b>> : a \in {c \in RaceContacts : c.company # NULL},
                b \in {c \in RaceContacts : c.company = NULL}}

\* most Person nodes ever created
MaxPersons == 3
\* largest KNOWS.interactionCount
MaxCount == 2
\* days between two clock readings
TickDays == 30
\* last clock reading
MaxNow == 30

Idle == [pc |-> "idle"]
Done == [pc |-> "done"]

Init ==
    /\ persons = <<>> /\ knows = <<>> /\ users = {} /\ companies = {} /\ worksAt = {}
    /\ colleagues = {}
    /\ nextPerson = 1 /\ nextKnows = 1 /\ now = 0
    /\ proc = [w \in IngestWorkers \cup {"en", "mt"} |-> Idle]
    /\ scoreLog = <<>> /\ calc = <<>> /\ dedup = <<>>

Goto(w, rec) == proc' = [proc EXCEPT ![w] = rec]

\* batchIngestContacts: the next contact of the batch, or the return
NextContact(p) ==
    IF p.i < Len(p.contacts) THEN [pc |-> "person", contacts |-> p.contacts, i |-> p.i + 1]
    ELSE Done

At(p, pc) == [pc |-> pc, contacts |-> p.contacts, i |-> p.i]

\* batchIngestContacts starts: ensureKueUser
IngestStartWith(w, batches) ==
    /\ proc[w].pc = "idle"
    /\ \E contacts \in batches :
          Goto(w, [pc |-> "person", contacts |-> contacts, i |-> 1])
    /\ SetGraph(ensureKueUser(Graph, Owner))
    /\ UNCHANGED <<now, scoreLog, calc, dedup>>

IngestStart(w) == IngestStartWith(w, SyncBatches)

\* upsertPerson, the match of its MERGE: a node that matches is updated here (ON
\* MATCH); with no match the creation follows in a step of its own
PersonMerge(w) ==
    /\ proc[w].pc = "person"
    /\ LET contact == proc[w].contacts[proc[w].i]
           seen == MergePersonMatch(Graph, contact, Owner)
       IN  IF seen = {}
           THEN /\ Goto(w, At(proc[w], "personCreate"))
                /\ UNCHANGED graphVars
           ELSE /\ Goto(w, At(proc[w], "knows"))
                /\ SetGraph(upsertPersonWrite(Graph, contact, Owner, seen))
    /\ UNCHANGED <<now, scoreLog, calc, dedup>>

\* upsertPerson, the creation of its MERGE (ON CREATE), whatever was created since
PersonCreate(w) ==
    /\ proc[w].pc = "personCreate"
    /\ nextPerson <= MaxPersons
    /\ SetGraph(upsertPersonWrite(Graph, proc[w].contacts[proc[w].i], Owner, {}))
    /\ Goto(w, At(proc[w], "knows"))
    /\ UNCHANGED <<now, scoreLog, calc, dedup>>

\* upsertKnowsRelationship
Knows(w) ==
    /\ proc[w].pc = "knows"
    /\ LET contact == proc[w].contacts[proc[w].i] IN
       /\ \E g \in {upsertKnowsRelationship(Graph, Owner, contact.email, contact.source, now)} :
             /\ \A e \in DOMAIN g.knows : g.knows[e].interactionCount <= MaxCount
             /\ SetGraph(g)
       /\ Goto(w, IF contact.company # NULL THEN At(proc[w], "company")
                  ELSE NextContact(proc[w]))
    /\ UNCHANGED <<now, scoreLog, calc, dedup>>

\* upsertCompany
Company(w) ==
    /\ proc[w].pc = "company"
    /\ LET contact == proc[w].contacts[proc[w].i] IN
       SetGraph(upsertCompany(Graph, contact.company, extractDomain(contact.email)))
    /\ Goto(w, At(proc[w], "worksAt"))
    /\ UNCHANGED <<now, scoreLog, calc, dedup>>

\* upsertWorksAt, the last query for a contact
WorksAt(w) ==
    /\ proc[w].pc = "worksAt"
    /\ LET contact == proc[w].contacts[proc[w].i] IN
       SetGraph(upsertWorksAt(Graph, contact.email, contact.company, Owner))
    /\ Goto(w, NextContact(proc[w]))
    /\ UNCHANGED <<now, scoreLog, calc, dedup>>

\* a query of the contact throws: the catch logs and the loop continues with the
\* next contact
IngestFail(w) ==
    /\ proc[w].pc \in {"person", "personCreate", "knows", "company", "worksAt"}
    /\ Goto(w, NextContact(proc[w]))
    /\ UNCHANGED <<graphVars, now, scoreLog, calc, dedup>>

\* enrich-contact function, step 1: executeEnrichment(userId, personId) for a Person
\* of the user (for an id that names none it returns without scoring)
Enrich ==
    /\ proc["en"].pc = "idle"
    /\ \E personId \in {id \in DOMAIN persons : persons[id].ownerId = Owner} :
          /\ SetGraph(executeEnrichment(Graph, personId, Owner))
          /\ Goto("en", [pc |-> "scoreRead", email |-> persons[personId].email])
    /\ UNCHANGED <<now, scoreLog, calc, dedup>>

\* scoreContact, the fetch: null when no record, else records[0] is scored at Date.now()
ScoreContactRead ==
    /\ proc["en"].pc = "scoreRead"
    /\ LET rows == EdgesByEmail(Graph, Owner, proc["en"].email)
       IN  IF rows = {} THEN Goto("en", Done)
           ELSE \E e \in rows :
                   Goto("en", [pc |-> "scoreWrite", email |-> proc["en"].email, e |-> e,
                               raw |-> RawCounters(Graph, e), t |-> now,
                               result |-> ScoreOf(Graph, e, now)])
    /\ UNCHANGED <<graphVars, now, scoreLog, calc, dedup>>

\* scoreContact, the update of every edge the email matches, and the return
ScoreContactWrite ==
    /\ proc["en"].pc = "scoreWrite"
    /\ LET p == proc["en"] IN
       /\ SetGraph(SetScore(Graph, EdgesByEmail(Graph, Owner, p.email), p.result, now))
       /\ scoreLog' = With(scoreLog, p.email,
                           [e |-> p.e, raw |-> p.raw, t |-> p.t, score |-> p.result.score,
                            before |-> IF p.email \in DOMAIN scoreLog
                                       THEN <<[scoreLog[p.email] EXCEPT !.before = <<>>]>>
                                       ELSE <<>>])
    /\ Goto("en", Done)
    /\ UNCHANGED <<now, calc, dedup>>

\* maintenance, fetch-active-users: the user is among the KueUser nodes
MaintStart ==
    /\ proc["mt"].pc = "idle"
    /\ Owner \in users
    /\ Goto("mt", [pc |-> "scoreAll"])
    /\ UNCHANGED <<graphVars, now, scoreLog, calc, dedup>>

\* scoreAllContacts, the fetch and the scores at Date.now(); with no record it returns
ScoreAllRead ==
    /\ proc["mt"].pc = "scoreAll"
    /\ IF EdgesOf(Graph, Owner) = {} THEN Goto("mt", [pc |-> "dupes", scored |-> {}])
       ELSE Goto("mt", [pc |-> "scoreWrite", scores |-> allScoresOf(Graph, Owner, now)])
    /\ UNCHANGED <<graphVars, now, scoreLog, calc, dedup>>

\* scoreAllContacts, batchUpdateScores
ScoreAllWrite ==
    /\ proc["mt"].pc = "scoreWrite"
    /\ LET scores == proc["mt"].scores IN
       /\ SetGraph(batchUpdateScores(Graph, Owner, scores, DOMAIN scores, now))
       /\ Goto("mt", [pc |-> "dupes", scored |-> DOMAIN scores])
    /\ UNCHANGED <<now, scoreLog, calc, dedup>>

\* removeIds of every group with its keepId, groups and ids in ascending order
RECURSIVE removeQueue(_, _)
removeQueue(groups, ids) ==
    IF ids = {} THEN <<>>
    ELSE LET r == CHOOSE x \in ids : \A y \in ids : x <= y
             grp == CHOOSE x \in groups : r \in x.ids
         IN  <<[keepId |-> grp.keepId, removeId |-> r]>> \o removeQueue(groups, ids \ {r})

\* findAndMergeDuplicates, find_email_dupes: collect(p) has no order, so any node of
\* a group may come first and be kept
DupFind ==
    /\ proc["mt"].pc = "dupes"
    /\ LET found == DupGroups(Graph, Owner) IN
       \E first \in [found -> DOMAIN persons] :
          /\ \A ids \in found : first[ids] \in ids
          /\ LET groups == {[keepId |-> first[ids], ids |-> ids] : ids \in found}
                 queue == removeQueue(groups, UNION {grp.ids \ {grp.keepId} : grp \in groups})
             IN  Goto("mt", [pc |-> IF queue = <<>> THEN "merged" ELSE "merge",
                             scored |-> proc["mt"].scored, groups |-> groups,
                             queue |-> queue])
    /\ UNCHANGED <<graphVars, now, scoreLog, calc, dedup>>

\* mergePersonNodes, the query for one removeId
MergeStep ==
    /\ proc["mt"].pc = "merge"
    /\ LET p == proc["mt"] IN
       /\ SetGraph(mergePersonNode(Graph, Head(p.queue).keepId, Head(p.queue).removeId, Owner))
       /\ Goto("mt", [p EXCEPT !.pc = IF Tail(p.queue) = <<>> THEN "merged" ELSE "merge",
                               !.queue = Tail(p.queue)])
    /\ UNCHANGED <<now, scoreLog, calc, dedup>>

\* findAndMergeDuplicates has returned; findStaleContacts (a read) ends the run
FindStale ==
    /\ proc["mt"].pc = "merged"
    /\ Goto("mt", Done)
    /\ UNCHANGED <<graphVars, now, scoreLog, calc, dedup>>

\* the clock advances
Tick ==
    /\ now + TickDays <= MaxNow
    /\ now' = now + TickDays
    /\ UNCHANGED <<graphVars, proc, scoreLog, calc, dedup>>

\* the next sync request is served
SyncAgain(w) ==
    /\ proc[w].pc = "done"
    /\ Goto(w, Idle)
    /\ UNCHANGED <<graphVars, now, scoreLog, calc, dedup>>

\* the next enrich-contact event is served
EnrichAgain ==
    /\ proc["en"].pc = "done"
    /\ Goto("en", Idle)
    /\ UNCHANGED <<graphVars, now, scoreLog, calc, dedup>>

Ingestion(w) ==
    \/ IngestStart(w) \/ PersonMerge(w) \/ PersonCreate(w) \/ Knows(w)
    \/ Company(w) \/ WorksAt(w) \/ IngestFail(w)

Next ==
    \/ \E w \in IngestWorkers : Ingestion(w)
    \/ Enrich \/ ScoreContactRead \/ ScoreContactWrite
    \/ MaintStart \/ ScoreAllRead \/ ScoreAllWrite \/ DupFind \/ MergeStep \/ FindStale

Spec == Init /\ [][Next]_vars

NextRescore ==
    \/ Ingestion("i1") \/ SyncAgain("i1")
    \/ Enrich \/ ScoreContactRead \/ ScoreContactWrite \/ EnrichAgain
    \/ Tick

SpecRescore == Init /\ [][NextRescore]_vars

\* C2: in every state reachable by ingestion, scoring and the duplicate-merge pass
\* there is at most one KNOWS edge between a user and a Person; a repeated
\* observation of a known contact updates the edge it finds.
C2_OneKnowsEdge ==
    \A a, b \in DOMAIN knows :
        (knows[a].from = knows[b].from /\ knows[a].to = knows[b].to) => a = b

\* C2 witness: a contact observed twice has one edge with interactionCount 2, after
\* a duplicate-merge pass that merged a group
C2_Witness ==
    /\ proc["mt"].pc = "merged" /\ proc["mt"].groups # {}
    /\ \E e \in DOMAIN knows : knows[e].interactionCount = 2
    /\ \A w \in IngestWorkers : proc[w].pc = "done"

\* the KNOWS edges of the user's relationship to the contact with email m
RelEdges(ks, ps, m) ==
    {e \in DOMAIN ks : /\ ks[e].from = Owner /\ ks[e].to \in DOMAIN ps
                       /\ ps[ks[e].to].ownerId = Owner /\ ps[ks[e].to].email = m}

\* the step is the score update of scoreContact or of scoreAllContacts
ScoringStep ==
    \/ proc["en"].pc = "scoreWrite" /\ proc'["en"].pc # "scoreWrite"
    \/ proc["mt"].pc = "scoreWrite" /\ proc'["mt"].pc # "scoreWrite"

\* C3: the strength and breakdown of the user's relationship to a contact change only
\* in scoreAllContacts and scoreContact.  Checked in its weakest form: after a step
\* of ingestion, enrichment or the duplicate-merge pass, a relationship that had been
\* scored still has an edge carrying a strength and breakdown it carried before.
C3_OnlyScoringWritesStrength ==
    [][ ~ScoringStep =>
          \A m \in {persons[id].email : id \in DOMAIN persons} :
             (\E e \in RelEdges(knows, persons, m) : knows[e].scoredAt # NoNum) =>
                \E e \in RelEdges(knows, persons, m), f \in RelEdges(knows', persons', m) :
                    /\ knows'[f].strength = knows[e].strength
                    /\ knows'[f].scoreBreakdown = knows[e].scoreBreakdown ]_vars

\* C10: after findAndMergeDuplicates has run, of every group of same-email Person
\* nodes it found exactly one node, the first (kept), remains and every other node of
\* the group is deleted, whether or not it had a KNOWS edge.
C10_OnePersonPerEmailAfterMerge ==
    proc["mt"].pc = "merged" =>
        \A grp \in proc["mt"].groups :
            {id \in grp.ids : id \in DOMAIN persons} = {grp.keepId}

GraphNext == [persons |-> persons', knows |-> knows', users |-> users',
              companies |-> companies', worksAt |-> worksAt', colleagues |-> colleagues',
              nextPerson |-> nextPerson', nextKnows |-> nextKnows']

\* the step is the score update that ends the later of a scoreContact run and a
\* scoreAllContacts run, with no sync request under way
LastScoringWrite ==
    /\ \A w \in IngestWorkers : proc[w].pc \in {"idle", "done"}
    /\ \/ /\ proc["en"].pc = "scoreWrite" /\ proc'["en"].pc = "done"
          /\ proc["mt"].pc \in {"dupes", "merge", "merged", "done"}
       \/ /\ proc["mt"].pc = "scoreWrite" /\ proc'["mt"].pc = "dupes"
          /\ proc["en"].pc = "done"

\* C6: for every interleaving of the read and write steps of a scoreAllContacts run
\* and a scoreContact run on one KNOWS edge, with ingestion updating the edge while
\* they run, once all have finished the stored strength is the score of the edge's
\* raw counters as they then are.  The edge is the one scoreContact read; the
\* scoreAllContacts run covered it when the run is still in its maintenance pass.
C6_ScoringOrderIndependent ==
    [][ LastScoringWrite =>
          \A m \in DOMAIN scoreLog' :
             LET e == scoreLog'[m].e
             IN  (/\ e \in DOMAIN knows'
                  /\ knows'[e].scoredAt # NoNum
                  /\ proc'["mt"].pc # "done" => knows'[e].to \in proc'["mt"].scored)
                 => knows'[e].strength = ScoreOf(GraphNext, e, now').score ]_vars

MergeQueryStep == proc["mt"].pc = "merge" /\ proc'["mt"] # proc["mt"]

\* C11: when the duplicate-merge pass merges a duplicate Person into the kept node and
\* a user had a KNOWS edge to the duplicate, then after the merge query that user has
\* a KNOWS edge to the kept node, which still exists.
C11_MergeTransfersKnows ==
    [][ MergeQueryStep =>
          LET q == Head(proc["mt"].queue)
          IN  \A e \in EdgesTo(Graph, q.removeId) :
                 /\ q.keepId \in DOMAIN persons'
                 /\ KnowsBetween(GraphNext, knows[e].from, q.keepId) # {} ]_vars

\* C11 witness: the pass has deleted the duplicate of a group, and the kept node, which
\* had no edge of its own, carries the edge the merge query created for the user
C11_Witness ==
    /\ proc["mt"].pc = "merged"
    /\ \E grp \in proc["mt"].groups :
          /\ {id \in grp.ids : id \in DOMAIN persons} = {grp.keepId}
          /\ \E e \in KnowsBetween(Graph, Owner, grp.keepId) :
                knows[e].interactionCount = NoNum

\* C13: a Person is never removed except by merging into a canonical node: in every
\* step of ingestion, enrichment, scoring and maintenance, for every Person there is
\* after the step a Person with its email and ownerId.
C13_PersonNeverLost ==
    [][ \A id \in DOMAIN persons :
           PersonsByEmail(GraphNext, persons[id].email, persons[id].ownerId) # {} ]_vars

\* C13 witness: the maintenance run has deleted a Person node, the enrich-contact run
\* and the sync requests have finished, and a Person with the email is there
C13_Witness ==
    /\ Cardinality(DOMAIN persons) < nextPerson - 1
    /\ \A w \in DOMAIN proc : proc[w].pc = "done"
    /\ PersonsByEmail(Graph, "john@acme.com", Owner) # {}

----------------------------------------------------------------------------
(* The duplicate-merge pass on a graph with look-alike contacts: SpecMaint. *)
(* Two sync requests and one run of the daily maintenance function, as in   *)
(* Spec, with batches that hold two contacts of one email and a contact of  *)
(* another email with the same first name and company.                      *)

MaintContacts ==
    { Contact("john@acme.com", "John Doe", "John", NULL, NULL, "Acme", NULL, NULL, "gmail"),
      Contact("john@acme.com", NULL, "John", NULL, NULL, NULL, NULL, NULL, "google_contacts"),
      Contact("bob@gmail.com", "John Doe", "JOHN", "Doe", NULL, "ACME", NULL, NULL, "gmail") }

\* the batches the sync requests carry: one contact, or the look-alike and a john@acme.com
MaintBatches ==
    {<<c>> : c \in MaintContacts} \cup
    {<<a, b>> : a \in {c \in MaintContacts : c.email = "bob@gmail.com"},
                b \in {c \in MaintContacts : c.email = "john@acme.com"}}

NextMaint ==
    \/ \E w \in IngestWorkers :
          \/ IngestStartWith(w, MaintBatches) \/ PersonMerge(w) \/ PersonCreate(w)
          \/ Knows(w) \/ Company(w) \/ WorksAt(w) \/ IngestFail(w)
    \/ MaintStart \/ ScoreAllRead \/ ScoreAllWrite \/ DupFind \/ MergeStep \/ FindStale

SpecMaint == Init /\ [][NextMaint]_vars

\* the step is one of findAndMergeDuplicates: its find_email_dupes query or a merge query
DedupStep == proc["mt"].pc \in {"dupes", "merge"} /\ proc'["mt"] # proc["mt"]

\* C12: findAndMergeDuplicates never merges, deletes or modifies a Person on a fuzzy
\* match: a Person of the user whose email no other Person of the user has is the same
\* after every step of the call, also when other Persons of the user have its first
\* name and company.
C12_FuzzyMatchesUntouched ==
    [][ DedupStep =>
          \A id \in DOMAIN persons :
             (/\ persons[id].ownerId = Owner
              /\ PersonsByEmail(Graph, persons[id].email, Owner) = {id})
                => id \in DOMAIN persons' /\ persons'[id] = persons[id] ]_vars

\* C12 witness: the pass has merged a group of same-email nodes and deleted its
\* duplicate, while two Persons with different emails and the same first name and
\* company, one of them with an email of its own, are both still there
C12_Witness ==
    /\ proc["mt"].pc = "merged"
    /\ \E grp \in proc["mt"].groups : {id \in grp.ids : id \in DOMAIN persons} = {grp.keepId}
    /\ \E ids \in NameDupes(Graph, Owner) :
          \E a, b \in ids : /\ persons[a].email # persons[b].email
                            /\ PersonsByEmail(Graph, persons[a].email, Owner) = {a}

----------------------------------------------------------------------------
(* The scoring computation on its own: SpecScore *)

\* the clock reading of the scoring runs of SpecScore
ScoreNow == 3000
\* days between a contact date and now; negative: the date is later than now
DayOffsets == {-30, -4, 0, 10, 300, 364, 365, 730, 1825, 2500}
SourceLists == { <<>>, <<"gmail">>, <<"gmail", "calendar">>, <<"linkedin">>,
                 <<"gmail", "google_contacts", "calendar", "linkedin">>,
                 <<"gmail", "google_contacts", "calendar", "linkedin", "csv">> }

Dates == {NoNum} \cup {ScoreNow - d : d \in DayOffsets}

ScoreInputs ==
    [now : {ScoreNow}, lastContact : Dates, firstContact : Dates,
     interactionCount : {0, 1, 40, 100, 250},
     emailsSent : {0, 2, 20}, emailsReceived : {0, 1, 18}, meetingCount : {0, 2},
     sources : SourceLists]

InitScore ==
    /\ persons = <<>> /\ knows = <<>> /\ users = {} /\ companies = {} /\ worksAt = {}
    /\ colleagues = {}
    /\ nextPerson = 1 /\ nextKnows = 1 /\ now = ScoreNow
    /\ proc = <<>> /\ scoreLog = <<>> /\ dedup = <<>>
    /\ calc \in {[stage |-> "input", data |-> d] : d \in ScoreInputs}

CalculateBreakdown ==
    /\ calc.stage = "input"
    /\ calc' = [stage |-> "breakdown", data |-> calc.data,
                breakdown |-> calculateBreakdown(calc.data)]
    /\ UNCHANGED <<graphVars, now, proc, scoreLog, dedup>>

ComputeCompositeScore ==
    /\ calc.stage = "breakdown"
    /\ calc' = [stage |-> "score", data |-> calc.data, breakdown |-> calc.breakdown,
                score |-> computeCompositeScore(calc.breakdown)]
    /\ UNCHANGED <<graphVars, now, proc, scoreLog, dedup>>

NextScore == CalculateBreakdown \/ ComputeCompositeScore

SpecScore == InitScore /\ [][NextScore]_vars

Components == {"recency", "frequency", "reciprocity", "diversity", "duration"}

\* C4: for every input of the scoring computation (a contact date absent, before
\* now or later than now; any counts; any source tags) each of the five breakdown
\* components is in [0, 1] and the composite score is in [0, 100].
C4_ScoresInRange ==
    /\ calc.stage \in {"breakdown", "score"} =>
            \A c \in Components : calc.breakdown[c] \in 0..100
    /\ calc.stage = "score" => calc.score \in 0..10000

----------------------------------------------------------------------------
(* TraverseService.findSecondDegree, on the graph as a value *)

\* (u:KueUser {id: $userId})-[r1:KNOWS]->(p1:Person): the edges r1
DirectEdges(g, userId) ==
    {e \in DOMAIN g.knows : /\ userId \in g.users /\ g.knows[e].from = userId
                            /\ g.knows[e].to \in DOMAIN g.persons}

\* the COLLEAGUES_WITH and KNOWS relationships that leave node n
OutRels(g, n) ==
    {[type |-> "COLLEAGUES_WITH", id |-> c, to |-> c[2]] : c \in {c \in g.colleagues : c[1] = n}}
    \cup {[type |-> "KNOWS", id |-> <<e>>, to |-> g.knows[e].to]
             : e \in {e \in DOMAIN g.knows : g.knows[e].from = n}}

\* (p1)-[:COLLEAGUES_WITH|KNOWS*1..2]->(p2:Person): the nodes p2, over one or two
\* relationships that differ from each other and from r1
SecondHop(g, r1) ==
    LET first == {x \in OutRels(g, g.knows[r1].to) : x.id # <<r1>>}
        second == UNION {{y \in OutRels(g, x.to) : y.id # <<r1>> /\ y # x} : x \in first}
    IN  {x.to : x \in first \cup second} \cap DOMAIN g.persons

notOwn_always(g, userId, p2) == TRUE

\* WHERE p2.ownerId <> $userId
notOwn(g, userId, p2) == g.persons[p2].ownerId # NULL /\ g.persons[p2].ownerId # userId

notKnown_always(g, userId, p2) == TRUE

\* AND NOT (u)-[:KNOWS]->(p2)
notKnown(g, userId, p2) == KnowsBetween(g, userId, p2) = {}

strongEnough_always(g, r1, minStrength) == TRUE

\* AND r1.strength >= $minStrength: null when the edge has no strength
strongEnough(g, r1, minStrength) ==
    g.knows[r1].strength # NoNum /\ g.knows[r1].strength >= minStrength

\* the rows of the MATCH that pass the WHERE
SecondDegreeRows(g, userId, minStrength) ==
    {row \in UNION {{[r1 |-> e, p2 |-> id] : id \in SecondHop(g, e)} : e \in DirectEdges(g, userId)} :
        /\ notOwn(g, userId, row.p2)
        /\ notKnown(g, userId, row.p2)
        /\ strongEnough(g, row.r1, minStrength)}

\* p2 { .id, .email, .name, .title, .company, degree: 2, strength: r1.strength }
NetworkNode(g, row) ==
    [id |-> row.p2, email |-> g.persons[row.p2].email, name |-> g.persons[row.p2].name,
     title |-> g.persons[row.p2].title, company |-> g.persons[row.p2].company,
     degree |-> 2, strength |-> g.knows[row.r1].strength]

\* RETURN DISTINCT ... AS node: the distinct projected maps
DistinctNodes(g, rows) == {NetworkNode(g, row) : row \in rows}

\* ORDER BY r1.strength DESC: the orders the store may return; equal strengths in any order
OrderedByStrength(nodes) ==
    {ord \in [1..Cardinality(nodes) -> nodes] :
        /\ \A i, j \in DOMAIN ord : i # j => ord[i] # ord[j]
        /\ \A i, j \in DOMAIN ord : i < j => ord[i].strength >= ord[j].strength}

\* LIMIT $limit
Limit(ord, limit) == SubSeq(ord, 1, Min(limit, Len(ord)))

\* the lists findSecondDegree may return
findSecondDegree(g, userId, limit, minStrength) ==
    {Limit(ord, limit) :
        ord \in OrderedByStrength(DistinctNodes(g, SecondDegreeRows(g, userId, minStrength)))}

----------------------------------------------------------------------------
(* findSecondDegree on the graphs a store may hold: SpecSecond.  The store   *)
(* is an input of the query: its nodes and relationships are those of the    *)
(* schema (KueUser, Person; KNOWS from a KueUser to a Person, with or        *)
(* without a strength; COLLEAGUES_WITH between Persons, as the seed script   *)
(* writes them), whoever wrote them.  Node ids are strings here.             *)

\* the Person nodes: a and b are u1's, c is u1's or u2's, d is u2's
SecondPersons(ownerOfC) ==
    [id \in {"a", "b", "c", "d"} |->
        NewPerson(Contact(CASE id = "a" -> "alice@techcorp.com"
                            [] id = "b" -> "bob@startupinc.io"
                            [] id = "c" -> "carol@designstudio.co"
                            [] id = "d" -> "david.kim@bigfin.com",
                          NULL, NULL, NULL, NULL, NULL, NULL, NULL, "gmail"),
                  CASE id = "c" -> ownerOfC [] id = "d" -> "u2" [] OTHER -> "u1")]

\* the KNOWS edges a graph may have, by edge id
SecondKnows == << <<"u1", "a">>, <<"u1", "b">>, <<"u1", "c">>, <<"u2", "c">> >>

\* the COLLEAGUES_WITH edges a graph may have
SecondColleagues == { <<"a", "c">>, <<"b", "c">>, <<"a", "b">>, <<"c", "a">>, <<"b", "d">> }

\* KNOWS.strength: none, 40, 60
Strengths == {NoNum, 4000, 6000}
\* minStrength: the default, 50
MinStrengths == {0, 5000}
\* limit: 1, the default
Limits == {1, 50}

KnowsWith(from, to, strength) == [BareKnows(from, to) EXCEPT !.strength = strength]

InitSecond ==
    /\ \E ownerOfC \in Users : persons = SecondPersons(ownerOfC)
    /\ \E present \in SUBSET DOMAIN SecondKnows :
          \E st \in [present -> Strengths] :
             knows = [e \in present |-> KnowsWith(SecondKnows[e][1], SecondKnows[e][2], st[e])]
    /\ colleagues \in SUBSET SecondColleagues
    /\ users = Users /\ companies = {} /\ worksAt = {}
    /\ nextPerson = 1 /\ nextKnows = 1 /\ now = 0
    /\ proc = <<>> /\ scoreLog = <<>> /\ dedup = <<>>
    /\ calc = [stage |-> "graph"]

\* TraverseService.findSecondDegree(userId, {limit, minStrength})
FindSecondDegree ==
    /\ calc.stage = "graph"
    /\ \E userId \in Users, limit \in Limits, minStrength \in MinStrengths :
          \E result \in findSecondDegree(Graph, userId, limit, minStrength) :
             calc' = [stage |-> "secondDegree", userId |-> userId, limit |-> limit,
                      minStrength |-> minStrength, result |-> result]
    /\ UNCHANGED <<graphVars, now, proc, scoreLog, dedup>>

NextSecond == FindSecondDegree

SpecSecond == InitSecond /\ [][NextSecond]_vars

\* the Persons a (u)-[r1:KNOWS]->(p1)-[*1..2]->(p2) pattern reaches over r1 = e that are
\* neither the user's own nor directly known by the user
Candidates(userId, e) ==
    {id \in SecondHop(Graph, e) :
        persons[id].ownerId # userId /\ KnowsBetween(Graph, userId, id) = {}}

\* C14: for every graph and every user, no Person returned by findSecondDegree has a
\* direct KNOWS edge from that user, and none has ownerId equal to that user.
C14_NotKnownNotOwn ==
    calc.stage = "secondDegree" =>
        \A i \in DOMAIN calc.result :
            /\ KnowsBetween(Graph, calc.userId, calc.result[i].id) = {}
            /\ persons[calc.result[i].id].ownerId # calc.userId

\* C14 witness: findSecondDegree returned a Person, and left out a Person of another
\* owner that a strong enough direct connection reaches, because the user knows it
C14_Witness ==
    /\ calc.stage = "secondDegree" /\ calc.result # <<>> /\ calc.limit > 1
    /\ \E e \in DirectEdges(Graph, calc.userId) :
          /\ strongEnough(Graph, e, calc.minStrength)
          /\ \E id \in SecondHop(Graph, e) :
                /\ persons[id].ownerId # calc.userId
                /\ KnowsBetween(Graph, calc.userId, id) # {}

\* C15: for every minStrength, every Person returned by findSecondDegree is reached
\* through at least one direct connection whose KNOWS strength is >= minStrength; a
\* candidate reachable only through direct connections weaker than minStrength (or
\* without a strength) is not returned.
C15_ReachedThroughStrongConnection ==
    calc.stage = "secondDegree" =>
        \A i \in DOMAIN calc.result :
            \E e \in DirectEdges(Graph, calc.userId) :
                /\ calc.result[i].id \in SecondHop(Graph, e)
                /\ knows[e].strength # NoNum
                /\ knows[e].strength >= calc.minStrength

\* C15 witness: with minStrength 50 a candidate is returned, and a candidate reached
\* only through a direct connection of strength 40 is not
C15_Witness ==
    /\ calc.stage = "secondDegree" /\ calc.result # <<>> /\ calc.limit > 1
    /\ calc.minStrength = 5000
    /\ \E e \in DirectEdges(Graph, calc.userId) :
          /\ knows[e].strength = 4000
          /\ \E id \in Candidates(calc.userId, e) :
                /\ \A f \in DirectEdges(Graph, calc.userId) :
                      id \in SecondHop(Graph, f) => knows[f].strength = 4000
                /\ \A i \in DOMAIN calc.result : calc.result[i].id # id

\* C16: the result of findSecondDegree is deduplicated: each Person appears at most
\* once in the returned list, also when it is reachable through several direct
\* connections that have different strengths.
C16_EachPersonOnce ==
    calc.stage = "secondDegree" =>
        \A i, j \in DOMAIN calc.result :
            calc.result[i].id = calc.result[j].id => i = j

----------------------------------------------------------------------------
(* TraverseService.findIntroPath and NetworkService.findIntroPath, on the    *)
(* graph as a value.  A path is [nodes, rels]: the ids of its nodes and of   *)
(* its KNOWS relationships, in order.  A value that may be null is a         *)
(* sequence: <<>> for null, <<v>> for v.                                     *)

\* -[:KNOWS*..4]-
MaxHops == 4

\* the KNOWS relationships at node n, in either direction, with the node at the other end
KnowsAt(g, n) ==
    {[rel |-> e, other |-> IF g.knows[e].from = n THEN g.knows[e].to ELSE g.knows[e].from]
        : e \in {e \in DOMAIN g.knows : g.knows[e].from = n \/ g.knows[e].to = n}}

\* the paths that extend `path` by at most `hops` relationships, none used twice
RECURSIVE KnowsPaths(_, _, _)
KnowsPaths(g, path, hops) ==
    {path} \cup
    (IF hops = 0 THEN {}
     ELSE UNION {KnowsPaths(g, [nodes |-> Append(path.nodes, x.other),
                                rels |-> Append(path.rels, x.rel)], hops - 1)
                    : x \in {x \in KnowsAt(g, path.nodes[Len(path.nodes)]) :
                                \A i \in DOMAIN path.rels : path.rels[i] # x.rel}})

\* (u:KueUser {id: $userId})-[:KNOWS*..4]-(target:Person {id: $targetPersonId})
PathsBetween(g, userId, targetPersonId) ==
    IF userId \notin g.users \/ targetPersonId \notin DOMAIN g.persons THEN {}
    ELSE {path \in KnowsPaths(g, [nodes |-> <<userId>>, rels |-> <<>>], MaxHops) :
            /\ Len(path.rels) >= 1
            /\ path.nodes[Len(path.nodes)] = targetPersonId}

shortestOf_any(paths) == paths

\* shortestPath(...): a path with the fewest relationships
shortestOf(paths) == {path \in paths : \A other \in paths : Len(path.rels) <= Len(other.rels)}

StrengthOrZero_raw(strength) == strength

\* (r.strength as number) || 0
StrengthOrZero(strength) == IF strength = NoNum THEN 0 ELSE strength

\* rels.reduce((sum, r) => sum + (r.strength || 0), 0)
RECURSIVE SumStrengths(_, _, _)
SumStrengths(g, rels, i) ==
    IF i > Len(rels) THEN 0
    ELSE StrengthOrZero(g.knows[rels[i]].strength) + SumStrengths(g, rels, i + 1)

\* the NetworkPath built from a record; totalStrength is the quotient sum / count, kept
\* as its two terms
NetworkPath(g, path) ==
    [from |-> path.nodes[1], to |-> path.nodes[Len(path.nodes)],
     via |-> SubSeq(path.nodes, 2, Len(path.nodes) - 1),
     totalStrength |-> [sum |-> SumStrengths(g, path.rels, 1), count |-> Len(path.rels)]]

\* TraverseService.findIntroPath for the record the query returned, if any
introPathOf(g, record) ==
    IF record = <<>> THEN <<>>
    ELSE IF Len(record[1].nodes) < 2 THEN <<>>
    ELSE <<NetworkPath(g, record[1])>>

\* the records the intro_path query may return: none, or one shortest path
introPathRecords(g, userId, targetPersonId) ==
    LET paths == shortestOf(PathsBetween(g, userId, targetPersonId))
    IN  IF paths = {} THEN {<<>>} ELSE {<<path>> : path \in paths}

\* NetworkService.findIntroPath: totalStrength rounded to hundredths, degrees
networkIntroPath(path) ==
    IF path = <<>> THEN <<>>
    ELSE <<[from |-> path[1].from, to |-> path[1].to, via |-> path[1].via,
            totalStrength |-> RoundDiv(path[1].totalStrength.sum, path[1].totalStrength.count),
            degrees |-> Len(path[1].via) + 1]>>

----------------------------------------------------------------------------
(* findIntroPath on the graphs a store may hold: SpecPath.  Three users and  *)
(* three Persons; the KNOWS edges of a graph are among seven that form a     *)
(* ring of six (so that two nodes can be five hops apart) with a chord.      *)

PathUsers == {"u1", "u2", "u3"}

PathPersons ==
    [id \in {"a", "b", "c"} |->
        NewPerson(Contact(CASE id = "a" -> "alice@techcorp.com"
                            [] id = "b" -> "bob@startupinc.io"
                            [] id = "c" -> "carol@designstudio.co",
                          NULL, NULL, NULL, NULL, NULL, NULL, NULL, "gmail"),
                  CASE id = "a" -> "u1" [] id = "b" -> "u2" [] id = "c" -> "u3")]

\* the KNOWS edges a graph may have, by edge id
PathKnows == << <<"u1", "a">>, <<"u2", "a">>, <<"u2", "b">>, <<"u3", "b">>,
                <<"u3", "c">>, <<"u1", "c">>, <<"u1", "b">> >>

\* the COLLEAGUES_WITH edge every graph has
PathColleagues == { <<"a", "c">> }

\* the users findIntroPath is called for
PathCallers == {"u1", "u2"}

InitPath ==
    /\ persons = PathPersons
    /\ \E present \in SUBSET DOMAIN PathKnows :
          \E st \in [present -> Strengths] :
             knows = [e \in present |-> KnowsWith(PathKnows[e][1], PathKnows[e][2], st[e])]
    /\ colleagues = PathColleagues
    /\ users = PathUsers /\ companies = {} /\ worksAt = {}
    /\ nextPerson = 1 /\ nextKnows = 1 /\ now = 0
    /\ proc = <<>> /\ scoreLog = <<>> /\ dedup = <<>>
    /\ calc = [stage |-> "graph"]

\* NetworkService.findIntroPath(userId, targetPersonId), which calls
\* TraverseService.findIntroPath; the target is a Person's id or the user's own id
FindIntroPath ==
    /\ calc.stage = "graph"
    /\ \E userId \in PathCallers :
          \E targetPersonId \in DOMAIN persons \cup {userId} :
             \E record \in introPathRecords(Graph, userId, targetPersonId) :
                calc' = [stage |-> "introPath", userId |-> userId,
                         targetPersonId |-> targetPersonId, record |-> record,
                         path |-> introPathOf(Graph, record),
                         intro |-> networkIntroPath(introPathOf(Graph, record))]
    /\ UNCHANGED <<graphVars, now, proc, scoreLog, dedup>>

NextPath == FindIntroPath

SpecPath == InitPath /\ [][NextPath]_vars

\* the nodes joined to a node of S by a KNOWS edge, in either direction
KnowsNeighbours(S) ==
    {knows[e].to : e \in {e \in DOMAIN knows : knows[e].from \in S}}
    \cup {knows[e].from : e \in {e \in DOMAIN knows : knows[e].to \in S}}

\* the nodes at most k KNOWS edges from a node of S
RECURSIVE WithinHops(_, _)
WithinHops(S, k) == IF k = 0 THEN S ELSE WithinHops(S \cup KnowsNeighbours(S), k - 1)

\* the hop counts k <= 4 for which a path of k KNOWS edges joins the user and the target
HopCounts == {k \in 1..4 : calc.targetPersonId \in WithinHops({calc.userId}, k)}

\* C17: findIntroPath(user, target) returns a path exactly when some path of at most 4
\* KNOWS edges connects the user to the target Person; the returned path goes from
\* the user to the target over KNOWS edges of the graph and has the minimum number
\* of hops among all such paths; otherwise the result is null.
C17_ShortestWithinFourHops ==
    (calc.stage = "introPath" /\ calc.targetPersonId \in DOMAIN persons) =>
        /\ calc.path # <<>> <=> HopCounts # {}
        /\ calc.path # <<>> =>
              LET nodes == calc.record[1].nodes
                  rels == calc.record[1].rels
              IN  /\ calc.path[1].from = calc.userId
                  /\ calc.path[1].to = calc.targetPersonId
                  /\ Len(nodes) = Len(rels) + 1
                  /\ calc.path[1].via = SubSeq(nodes, 2, Len(nodes) - 1)
                  /\ \A i \in DOMAIN rels :
                        /\ rels[i] \in DOMAIN knows
                        /\ {knows[rels[i]].from, knows[rels[i]].to} = {nodes[i], nodes[i + 1]}
                  /\ \A k \in HopCounts : Len(rels) <= k

\* C17 witness: a path of three hops was returned for a target that another path of
\* three hops reaches too
C17_Witness ==
    /\ calc.stage = "introPath" /\ calc.path # <<>>
    /\ Len(calc.path[1].via) = 2
    /\ \E path \in PathsBetween(Graph, calc.userId, calc.targetPersonId) :
          Len(path.rels) = 3 /\ path # calc.record[1]

\* the sum of the strengths of the edges in S, an edge without a strength counting as 0
RECURSIVE StrengthTotal(_)
StrengthTotal(S) ==
    IF S = {} THEN 0
    ELSE LET e == CHOOSE x \in S : TRUE
         IN  (IF knows[e].strength = NoNum THEN 0 ELSE knows[e].strength)
                + StrengthTotal(S \ {e})

\* C18: for every path returned by findIntroPath, totalStrength equals the sum of the
\* strengths of the path's KNOWS edges divided by the number of edges on the path, an
\* edge without a strength value counting as 0.
C18_TotalStrengthIsMean ==
    (calc.stage = "introPath" /\ calc.path # <<>>) =>
        LET rels == calc.record[1].rels
            onPath == {rels[i] : i \in DOMAIN rels}
        IN  /\ calc.path[1].totalStrength.count = Cardinality(onPath)
            /\ calc.path[1].totalStrength.count > 0
            /\ calc.path[1].totalStrength.sum = StrengthTotal(onPath)

\* C18 witness: a returned path of three edges, one without a strength, one of
\* strength 40 and one of strength 60: totalStrength is 100 / 3
C18_Witness ==
    /\ calc.stage = "introPath" /\ calc.path # <<>>
    /\ {knows[calc.record[1].rels[i]].strength : i \in DOMAIN calc.record[1].rels}
          = {NoNum, 4000, 6000}
    /\ calc.path[1].totalStrength = [sum |-> 10000, count |-> 3]
    /\ calc.intro[1].totalStrength = 3333

\* C19: findIntroPath ends with a well-defined result: called with the user as its own
\* target it returns the trivial path (from the user to the user, nothing between),
\* and called with a target that no path of at most 4 KNOWS edges reaches it returns
\* null.
C19_SelfTrivialUnreachableNull ==
    calc.stage = "introPath" =>
        /\ calc.targetPersonId = calc.userId =>
              /\ calc.intro # <<>>
              /\ calc.intro[1].from = calc.userId /\ calc.intro[1].to = calc.userId
              /\ calc.intro[1].via = <<>>
        /\ (/\ calc.targetPersonId \in DOMAIN persons
            /\ calc.targetPersonId \notin WithinHops({calc.userId}, 4))
              => calc.intro = <<>>

----------------------------------------------------------------------------
(* GraphService.batchIngestContacts with failing queries: SpecBatch.  One    *)
(* call after the other; in each call a query of any contact may throw.      *)

\* the query of a contact that throws, if any
FailPoints == {"none", "person", "knows", "company", "worksAt"}

NoCounts == [newPersons |-> 0, updatedPersons |-> 0, newCompanies |-> 0, relationships |-> 0]

\* the body of the loop for one contact: the upserts up to the one that throws, the
\* counters they increment, and whether the catch ran
ingestContactOutcome(g, counts, contact, userId, t, failAt) ==
    IF failAt = "person" THEN [g |-> g, counts |-> counts, failed |-> TRUE]
    ELSE
    LET isNew == MergePersonMatch(g, contact, userId) = {}
        g1 == upsertPerson(g, contact, userId)
        c1 == IF isNew THEN [counts EXCEPT !.newPersons = @ + 1]
              ELSE [counts EXCEPT !.updatedPersons = @ + 1]
    IN  IF failAt = "knows" THEN [g |-> g1, counts |-> c1, failed |-> TRUE]
        ELSE
        LET g2 == upsertKnowsRelationship(g1, userId, contact.email, contact.source, t)
            c2 == [c1 EXCEPT !.relationships = @ + 1]
        IN  IF contact.company = NULL THEN [g |-> g2, counts |-> c2, failed |-> FALSE]
            ELSE IF failAt = "company" THEN [g |-> g2, counts |-> c2, failed |-> TRUE]
            ELSE
            LET domain == extractDomain(contact.email)
                g3 == upsertCompany(g2, contact.company, domain)
                c3 == IF CompanyMatch(g2, contact.company, domain) = {}
                      THEN [c2 EXCEPT !.newCompanies = @ + 1] ELSE c2
            IN  IF failAt = "worksAt" THEN [g |-> g3, counts |-> c3, failed |-> TRUE]
                ELSE [g |-> upsertWorksAt(g3, contact.email, contact.company, userId),
                      counts |-> c3, failed |-> FALSE]

\* the loop over the contacts; caught: the contacts whose catch ran
RECURSIVE ingestOutcomeFrom(_, _, _, _, _, _, _, _)
ingestOutcomeFrom(g, counts, caught, contacts, i, userId, t, fails) ==
    IF i > Len(contacts) THEN [g |-> g, result |-> counts, caught |-> caught]
    ELSE LET o == ingestContactOutcome(g, counts, contacts[i], userId, t, fails[i])
         IN  ingestOutcomeFrom(o.g, o.counts, IF o.failed THEN caught \cup {i} ELSE caught,
                               contacts, i + 1, userId, t, fails)

\* batchIngestContacts: the graph it leaves and the value it returns
batchIngestOutcome(g, contacts, userId, t, fails) ==
    ingestOutcomeFrom(ensureKueUser(g, userId), NoCounts, {}, contacts, 1, userId, t, fails)

\* most calls of batchIngestContacts in a behaviour of SpecBatch
MaxCalls == 2

CallsDone == IF calc = <<>> THEN 0 ELSE calc.calls

\* GraphService.batchIngestContacts(contacts, userId, userEmail)
BatchIngestOutcomeCall ==
    /\ CallsDone < MaxCalls
    /\ \E contacts \in SeqsUpTo(AnyContacts, MaxBatch), userId \in Users :
          \E fails \in [DOMAIN contacts -> FailPoints] :
             \E o \in {batchIngestOutcome(Graph, contacts, userId, now, fails)} :
                /\ Cardinality(DOMAIN o.g.persons) <= MaxExisting
                /\ SyncsDone(o.g) <= MaxSyncs
                /\ SetGraph(o.g)
                /\ calc' = [stage |-> "returned", calls |-> CallsDone + 1, contacts |-> contacts, userId |-> userId,
                            caught |-> o.caught, result |-> o.result]
    /\ UNCHANGED <<now, proc, scoreLog, dedup>>

NextBatch == BatchIngestOutcomeCall

SpecBatch == InitSeq /\ [][NextBatch]_vars

\* C20: when the upsert of some contacts of a batch fails, batchIngestContacts still
\* ingests every other contact of the batch (its Person and its KNOWS edge are in the
\* graph), returns, and the value it returns includes the number of contacts that
\* failed.
C20_PartialFailureCounted ==
    (calc # <<>> /\ calc.caught # {}) =>
        /\ \A i \in DOMAIN calc.contacts \ calc.caught :
              \E id \in PersonsByEmail(Graph, calc.contacts[i].email, calc.userId) :
                 KnowsBetween(Graph, calc.userId, id) # {}
        /\ \E field \in DOMAIN calc.result : calc.result[field] = Cardinality(calc.caught)

----------------------------------------------------------------------------
(* maintenanceFunction, the daily sweep over every KueUser: SpecSweep.  A    *)
(* call of a service for one user may throw.                                 *)

\* the graph after two concurrent syncs of a user both created the Person of a contact
RaceGraph(g, userId) ==
    LET a == CHOOSE c \in RaceContacts : c.company = NULL
        b == CHOOSE c \in RaceContacts : c.company # NULL
        g1 == upsertPersonWrite(ensureKueUser(g, userId), a, userId, {})
        g2 == upsertPersonWrite(g1, b, userId, {})
    IN  upsertKnowsRelationship(g2, userId, a.email, a.source, 0)

\* the stores of a user: a synced contact, or a raced pair of Person nodes
StoresOf(g, userId) ==
    {batchIngestContacts(g, <<c>>, userId, 0) : c \in RaceContacts} \cup {RaceGraph(g, userId)}

\* a store with two users
SweepStores == UNION {StoresOf(g, "u2") : g \in StoresOf(EmptyGraph, "u1")}

InitSweep ==
    /\ \E g \in SweepStores :
          /\ persons = g.persons /\ knows = g.knows /\ users = g.users
          /\ companies = g.companies /\ worksAt = g.worksAt /\ colleagues = g.colleagues
          /\ nextPerson = g.nextPerson /\ nextKnows = g.nextKnows
    /\ now = 0
    /\ proc = [pc |-> "fetch"]
    /\ scoreLog = <<>> /\ calc = <<>> /\ dedup = <<>>

\* the steps that loop over the users, in the order of the function
SweepSteps == <<"rescore", "dedup", "stale">>

StepAfter(pc) ==
    IF pc = "rescore" THEN "dedup" ELSE IF pc = "dedup" THEN "stale" ELSE "metrics"

\* for (const user of users): the next user, or the return of the step
NextUser(p) ==
    IF p.i < Len(p.users) THEN [p EXCEPT !.i = @ + 1]
    ELSE [p EXCEPT !.pc = StepAfter(p.pc), !.i = 1]

\* the body of a loop was entered for the user
Attempted(p) == [p EXCEPT !.attempted = @ \cup {<<p.pc, p.users[p.i]>>}]

onCatch_rethrow(p) == [p EXCEPT !.pc = "failed"]

\* catch (error) { logger.error(...) }: the loop goes on
onCatch(p) == NextUser(p)

Thrown(p) == onCatch([p EXCEPT !.failed = @ \cup {<<p.pc, p.users[p.i]>>}])

Orders(S) == {o \in [1..Cardinality(S) -> S] : \A i, j \in DOMAIN o : o[i] = o[j] => i = j}

\* fetch-active-users: MATCH (u:KueUser) has no order
SweepFetchUsers ==
    /\ proc.pc = "fetch"
    /\ \E order \in Orders(users) :
          proc' = [pc |-> IF order = <<>> THEN "metrics" ELSE "rescore",
                   users |-> order, i |-> 1, attempted |-> {}, failed |-> {}]
    /\ UNCHANGED <<graphVars, now, scoreLog, calc, dedup>>

\* rescore-all-users, one user: scoreAllContacts returns
SweepRescore ==
    /\ proc.pc = "rescore"
    /\ LET userId == proc.users[proc.i]
           scores == allScoresOf(Graph, userId, now)
       IN  \E g \in {IF EdgesOf(Graph, userId) = {} THEN Graph
                        ELSE batchUpdateScores(Graph, userId, scores, DOMAIN scores, now)} :
              SetGraph(g)
    /\ proc' = NextUser(Attempted(proc))
    /\ UNCHANGED <<now, scoreLog, calc, dedup>>

\* rescore-all-users, one user: scoreAllContacts throws (a failed query writes nothing)
SweepRescoreThrows ==
    /\ proc.pc = "rescore"
    /\ proc' = Thrown(Attempted(proc))
    /\ UNCHANGED <<graphVars, now, scoreLog, calc, dedup>>

\* the first k merge queries of the queue
RECURSIVE mergeQueue(_, _, _, _)
mergeQueue(g, queue, k, userId) ==
    IF k = 0 \/ queue = <<>> THEN g
    ELSE mergeQueue(mergePersonNode(g, Head(queue).keepId, Head(queue).removeId, userId),
                    Tail(queue), k - 1, userId)

\* the merge queries of findAndMergeDuplicates, for every node its query may list first
MergeQueues(g, userId) ==
    LET found == DupGroups(g, userId) IN
    {removeQueue({[keepId |-> first[ids], ids |-> ids] : ids \in found},
                 UNION {ids \ {first[ids]} : ids \in found}) :
        first \in {f \in [found -> DOMAIN g.persons] : \A ids \in found : f[ids] \in ids}}

\* dedup-all-users, one user: findAndMergeDuplicates returns
SweepDedup ==
    /\ proc.pc = "dedup"
    /\ \E queue \in MergeQueues(Graph, proc.users[proc.i]) :
          \E g \in {mergeQueue(Graph, queue, Len(queue), proc.users[proc.i])} : SetGraph(g)
    /\ proc' = NextUser(Attempted(proc))
    /\ UNCHANGED <<now, scoreLog, calc, dedup>>

\* dedup-all-users, one user: a query of findAndMergeDuplicates throws, after the
\* merge queries before it
SweepDedupThrows ==
    /\ proc.pc = "dedup"
    /\ \E queue \in MergeQueues(Graph, proc.users[proc.i]) :
          \E k \in 0..Len(queue) :
             \E g \in {mergeQueue(Graph, queue, k, proc.users[proc.i])} : SetGraph(g)
    /\ proc' = Thrown(Attempted(proc))
    /\ UNCHANGED <<now, scoreLog, calc, dedup>>

\* find-stale-contacts, one user: findStaleContacts (a read) returns
SweepStale ==
    /\ proc.pc = "stale"
    /\ proc' = NextUser(Attempted(proc))
    /\ UNCHANGED <<graphVars, now, scoreLog, calc, dedup>>

\* find-stale-contacts, one user: findStaleContacts throws
SweepStaleThrows ==
    /\ proc.pc = "stale"
    /\ proc' = Thrown(Attempted(proc))
    /\ UNCHANGED <<graphVars, now, scoreLog, calc, dedup>>

\* record-maintenance-metrics and return { status: 'completed', ... }
SweepMetrics ==
    /\ proc.pc = "metrics"
    /\ proc' = [proc EXCEPT !.pc = "completed"]
    /\ UNCHANGED <<graphVars, now, scoreLog, calc, dedup>>

NextSweep ==
    \/ SweepFetchUsers
    \/ SweepRescoreThrows \/ SweepRescore
    \/ SweepDedupThrows \/ SweepDedup
    \/ SweepStaleThrows \/ SweepStale
    \/ SweepMetrics

\* the function runs each of its steps once it is started
SpecSweep == InitSweep /\ [][NextSweep]_vars /\ WF_vars(NextSweep)

AllAttempted ==
    \A k \in DOMAIN SweepSteps : \A u \in users : <<SweepSteps[k], u>> \in proc.attempted

\* C21: a maintenance run in which rescoring, deduplication or stale detection may fail
\* for any user completes, and each of the three steps has been attempted for every
\* user, those after a failed one included.
C21_SweepCompletes == <>(proc.pc = "completed" /\ AllAttempted)

\* C21 witness: a completed run in which the first user failed in every step and the
\* steps were attempted for the user after it; the
\* failed user still has its duplicate Persons.
C21_Witness ==
    /\ proc.pc = "completed"
    /\ \A k \in DOMAIN SweepSteps : <<SweepSteps[k], proc.users[1]>> \in proc.failed
    /\ \A k \in DOMAIN SweepSteps : <<SweepSteps[k], proc.users[2]>> \in proc.attempted \ proc.failed
    /\ DupGroups(Graph, proc.users[1]) # {}

----------------------------------------------------------------------------
(* QueryParserChain.parse and its keyword fallback: SpecParse.  A query is   *)
(* the sequence of the words of query.toLowerCase().trim().                  *)

Words == {"introduce", "to", "sarah", "engineers", "at", "google?", "people", "strongest",
          "in", "mutual"}

\* most words of a query
MaxWords == 3

Queries == SeqsUpTo(Words, MaxWords)

\* lower.includes(phrase), for a phrase of whole words
IncludesWords(q, phrase) ==
    \E i \in 1..(Len(q) - Len(phrase) + 1) : SubSeq(q, i, i + Len(phrase) - 1) = phrase

\* lower.includes('intro'): a word that contains it
IncludesIntro(q) == \E i \in DOMAIN q : q[i] \in {"introduce", "intro"}

\* lower.includes(' at '): the word between two others
IncludesBetween(q, w) == \E i \in 2..(Len(q) - 1) : q[i] = w

\* lower.split(' w '): the words from..Len(q) cut at the separators; a separator takes
\* the spaces on both of its sides, so the word after it is not one
RECURSIVE SplitFrom(_, _, _, _)
SplitFrom(q, w, i, part) ==
    IF i > Len(q) THEN <<part>>
    ELSE IF q[i] = w /\ part # <<>> /\ i < Len(q)
         THEN <<part>> \o SplitFrom(q, w, i + 2, <<q[i + 1]>>)
         ELSE SplitFrom(q, w, i + 1, Append(part, q[i]))

Split(q, w) == SplitFrom(q, w, 1, <<>>)

\* replace(/[?.,!]$/, ''): the last word without its trailing mark
StripMark(word) == IF word = "google?" THEN "google" ELSE word

StripLast(q) == [i \in DOMAIN q |-> IF i = Len(q) THEN StripMark(q[i]) ELSE q[i]]

\* toTitleCase: replace(/\b\w/g, upper)
TitleWord(word) ==
    CASE word = "introduce" -> "Introduce" [] word = "to" -> "To" [] word = "sarah" -> "Sarah"
      [] word = "engineers" -> "Engineers" [] word = "at" -> "At" [] word = "google?" -> "Google?"
      [] word = "google" -> "Google" [] word = "people" -> "People"
      [] word = "strongest" -> "Strongest" [] word = "in" -> "In" [] word = "mutual" -> "Mutual"

toTitleCase(q) == [i \in DOMAIN q |-> TitleWord(q[i])]

\* lower.match(/(?:introduce\s+(?:me\s+)?to|reach|path\s+to)\s+(.+)/): the words after
\* the leftmost "introduce to" that has a word after it
NameMatch(q) ==
    LET at == {i \in 1..(Len(q) - 2) : q[i] = "introduce" /\ q[i + 1] = "to"}
    IN  IF at = {} THEN <<>>
        ELSE LET i == CHOOSE x \in at : \A y \in at : x <= y
             IN  <<SubSeq(q, i + 2, Len(q))>>

\* lower.match(/(?:who\s+do\s+i\s+know\s+at|contacts?\s+at|people\s+at)\s+(.+)/)
CompanyMatchOf(q) ==
    LET at == {i \in 1..(Len(q) - 2) : q[i] = "people" /\ q[i + 1] = "at"}
    IN  IF at = {} THEN <<>>
        ELSE LET i == CHOOSE x \in at : \A y \in at : x <= y
             IN  <<SubSeq(q, i + 2, Len(q))>>

NoFilters == [name |-> <<>>, sort |-> <<>>, roles |-> <<>>, companies |-> <<>>,
              locations |-> <<>>, degree |-> <<>>]

\* QueryParserChain.fallbackParse(query); an absent filter is <<>>
fallbackParse(q) ==
    LET typed ==
          IF IncludesIntro(q)
          THEN [queryType |-> "intro_path",
                filters |-> IF NameMatch(q) # <<>>
                            THEN [NoFilters EXCEPT !.name = <<toTitleCase(NameMatch(q)[1])>>]
                            ELSE NoFilters]
          ELSE IF IncludesWords(q, <<"strongest">>)
          THEN [queryType |-> "relationship_query",
                filters |-> [NoFilters EXCEPT !.sort = <<"strength">>]]
          ELSE IF IncludesWords(q, <<"people", "at">>)
          THEN [queryType |-> "company_search",
                filters |-> IF CompanyMatchOf(q) # <<>>
                            THEN [NoFilters EXCEPT
                                    !.companies = <<toTitleCase(StripLast(CompanyMatchOf(q)[1]))>>]
                            ELSE NoFilters]
          ELSE IF IncludesBetween(q, "at")
          THEN [queryType |-> "person_search",
                filters |-> IF Len(Split(q, "at")) = 2
                            THEN [NoFilters EXCEPT
                                    !.roles = <<Split(q, "at")[1]>>,
                                    !.companies = <<toTitleCase(StripLast(Split(q, "at")[2]))>>]
                            ELSE NoFilters]
          ELSE IF IncludesBetween(q, "in")
          THEN [queryType |-> "person_search",
                filters |-> IF Len(Split(q, "in")) = 2
                            THEN [NoFilters EXCEPT
                                    !.roles = <<Split(q, "in")[1]>>,
                                    !.locations = <<toTitleCase(StripLast(Split(q, "in")[2]))>>]
                            ELSE NoFilters]
          ELSE [queryType |-> "general", filters |-> NoFilters]
    IN  [queryType |-> typed.queryType,
         filters |-> IF IncludesWords(q, <<"mutual">>)
                     THEN [typed.filters EXCEPT !.degree = <<2>>] ELSE typed.filters,
         naturalLanguage |-> q]

\* what the external model does with the request
ModelBehaviours == {"unconfigured", "answers", "garbles", "throws", "silent"}

\* JSON objects the model may answer with: queryType and filters, either may be missing
ModelAnswers ==
    {[queryType |-> t, filters |-> f] :
        t \in {<<>>, <<"person_search">>, <<"intro_path">>},
        f \in {<<>>, <<NoFilters>>, <<[NoFilters EXCEPT !.name = <<"Sarah">>]>>}}

InitParse ==
    /\ persons = <<>> /\ knows = <<>> /\ users = {} /\ companies = {} /\ worksAt = {}
    /\ colleagues = {}
    /\ nextPerson = 1 /\ nextKnows = 1 /\ now = 0
    /\ \E q \in Queries, b \in ModelBehaviours : calc = [query |-> q, model |-> b]
    /\ proc = [pc |-> "call"] /\ scoreLog = <<>> /\ dedup = <<>>

Returned(intent) == proc' = [pc |-> "returned", intent |-> intent]

\* parse: without a model the fallback, else this.model.invoke(...) is awaited
ParseCall ==
    /\ proc.pc = "call"
    /\ IF calc.model = "unconfigured" THEN Returned(fallbackParse(calc.query))
       ELSE proc' = [pc |-> "invoke"]
    /\ UNCHANGED <<graphVars, now, scoreLog, calc, dedup>>

\* the model answers with a JSON object
ModelAnswersJson ==
    /\ proc.pc = "invoke" /\ calc.model = "answers"
    /\ \E parsed \in ModelAnswers :
          Returned([queryType |-> IF parsed.queryType = <<>> THEN "general"
                                  ELSE parsed.queryType[1],
                    filters |-> IF parsed.filters = <<>> THEN NoFilters ELSE parsed.filters[1],
                    naturalLanguage |-> calc.query])
    /\ UNCHANGED <<graphVars, now, scoreLog, calc, dedup>>

\* the model answers with text JSON.parse rejects, or the call rejects: the catch
ModelFails ==
    /\ proc.pc = "invoke" /\ calc.model \in {"garbles", "throws"}
    /\ Returned(fallbackParse(calc.query))
    /\ UNCHANGED <<graphVars, now, scoreLog, calc, dedup>>

\* parse has no timer of its own: with a silent model no step of it is enabled
NextParse == ParseCall \/ ModelAnswersJson \/ ModelFails

SpecParse == InitParse /\ [][NextParse]_vars /\ WF_vars(NextParse)

\* C22: every call of parse eventually returns a SearchIntent, and when the model is
\* unconfigured, throws, answers with text that is not JSON, or does not respond, the
\* intent is the one of the fallback parser.
C22_ParseAlwaysReturns ==
    /\ <>(proc.pc = "returned")
    /\ [](proc.pc = "returned" /\ calc.model # "answers"
            => proc.intent = fallbackParse(calc.query))

\* what holds of parse: whenever the awaited call settles, parse returns, with the
\* fallback intent unless the model answered with JSON
C22_ReturnsWhenModelSettles ==
    /\ (calc.model # "silent") ~> (proc.pc = "returned")
    /\ [](proc.pc = "returned" /\ calc.model # "answers"
            => proc.intent = fallbackParse(calc.query))

----------------------------------------------------------------------------
(* CypherBuilderService.build: SpecBuild.  A query is the sequence of its    *)
(* clauses and the parameters bound to it; an absent filter is <<>>.         *)

QueryTypes == {"person_search", "company_search", "relationship_query", "intro_path",
               "general", "other"}

Intents ==
    {[queryType |-> t,
      filters |-> [name |-> n, title |-> ti, roles |-> r, companies |-> c,
                   locations |-> l, industries |-> ind, degree |-> d, sort |-> so]] :
        t \in QueryTypes, n \in {<<>>, <<"Sarah">>}, ti \in {<<>>, <<"VP">>},
        r \in {<<>>, <<"engineer">>}, c \in {<<>>, <<"Google">>},
        l \in {<<>>, <<"Berlin">>}, ind \in {<<>>, <<"fintech">>},
        d \in {<<>>, <<2>>}, so \in {<<>>, <<"strength">>, <<"recency">>}}

\* params with key k bound to v when the filter is present
Bind(params, k, filter) == IF filter = <<>> THEN params ELSE With(params, k, filter[1])

Clause(present, text) == IF present THEN <<text>> ELSE <<>>

\* buildSortClause(sort, relAlias)
buildSortClause(sort, relAlias) ==
    IF sort = <<"recency">> THEN <<"ORDER BY", relAlias, "lastContact DESC">>
    ELSE <<"ORDER BY", relAlias, "strength DESC">>

buildPersonSearch(intent, userId) ==
    LET f == intent.filters
        degree == IF f.degree = <<>> THEN 1 ELSE f.degree[1]
        conditions ==
            Clause(f.name # <<>>, "name CONTAINS $nameFilter")
            \o Clause(f.title # <<>>, "title CONTAINS $titleFilter")
            \o Clause(f.roles # <<>>, "title CONTAINS $role0")
            \o Clause(f.companies # <<>>, "company CONTAINS $company0")
            \o Clause(f.locations # <<>>, "location CONTAINS $location0")
            \o Clause(f.industries # <<>>, "industry CONTAINS $industry0")
    IN  [cypher |-> <<IF degree = 1 THEN "MATCH own contacts" ELSE "MATCH contacts of contacts">>
                    \o Clause(f.companies # <<>> \/ f.industries # <<>>, "OPTIONAL MATCH company")
                    \o Clause(conditions # <<>>, "WHERE") \o conditions
                    \o <<"RETURN DISTINCT result">>
                    \o buildSortClause(f.sort, IF degree = 1 THEN "r" ELSE "r1")
                    \o <<"LIMIT 50">>,
         params |-> Bind(Bind(Bind(Bind(Bind(Bind([userId |-> userId],
                        "nameFilter", f.name), "titleFilter", f.title), "role0", f.roles),
                        "company0", f.companies), "location0", f.locations),
                        "industry0", f.industries),
         queryType |-> "person_search"]

buildCompanySearch(intent, userId) ==
    LET f == intent.filters
        byName == f.companies = <<>> /\ f.name # <<>>
        companyFilter ==
            Clause(f.companies # <<>>, "name CONTAINS $company0")
            \o Clause(byName, "name CONTAINS $nameFilter")
            \o Clause(f.industries # <<>>, "industry CONTAINS $industry0")
    IN  [cypher |-> <<"MATCH company">> \o Clause(companyFilter # <<>>, "WHERE") \o companyFilter
                    \o <<"OPTIONAL MATCH own contacts", "RETURN result",
                         "ORDER BY size(contacts) DESC", "LIMIT 20">>,
         params |-> Bind(Bind(Bind([userId |-> userId], "company0", f.companies),
                        "nameFilter", IF byName THEN f.name ELSE <<>>),
                        "industry0", f.industries),
         queryType |-> "company_search"]

buildRelationshipQuery(intent, userId) ==
    LET f == intent.filters
        conditions == Clause(f.sort = <<"strength">>, "r.strength > 50")
                      \o Clause(f.sort = <<"recency">>, "r.lastContact IS NOT NULL")
    IN  [cypher |-> <<"MATCH own contacts", "OPTIONAL MATCH company">>
                    \o Clause(conditions # <<>>, "WHERE") \o conditions
                    \o <<"RETURN result">> \o buildSortClause(f.sort, "r") \o <<"LIMIT 50">>,
         params |-> [userId |-> userId],
         queryType |-> "relationship_query"]

\* without a name the target is any Person: MATCH (target:Person) WITH target LIMIT 1
buildIntroPathQuery(intent, userId) ==
    LET f == intent.filters
    IN  [cypher |-> <<"MATCH (target:Person)">>
                    \o Clause(f.name # <<>>, "WHERE target.name CONTAINS $targetName")
                    \o <<"WITH target LIMIT 1", "MATCH shortestPath", "RETURN nodes, relationships">>,
         params |-> Bind([userId |-> userId], "targetName", f.name),
         queryType |-> "intro_path"]

buildGeneralSearch(intent, userId) ==
    [cypher |-> <<"CALL fulltext person_search", "WHERE ownerId", "OPTIONAL MATCH own contacts",
                  "OPTIONAL MATCH company", "RETURN result", "ORDER BY score DESC", "LIMIT 50">>,
     params |-> [userId |-> userId, searchTerm |-> "sanitized~", exactTerm |-> "query"],
     queryType |-> "general_search"]

\* CypherBuilderService.build(intent, userId): every case of the switch returns a query
build(intent, userId) ==
    CASE intent.queryType = "person_search" -> buildPersonSearch(intent, userId)
      [] intent.queryType = "company_search" -> buildCompanySearch(intent, userId)
      [] intent.queryType = "relationship_query" -> buildRelationshipQuery(intent, userId)
      [] intent.queryType = "intro_path" -> buildIntroPathQuery(intent, userId)
      [] OTHER -> buildGeneralSearch(intent, userId)

InitBuild ==
    /\ persons = <<>> /\ knows = <<>> /\ users = {} /\ companies = {} /\ worksAt = {}
    /\ colleagues = {}
    /\ nextPerson = 1 /\ nextKnows = 1 /\ now = 0
    /\ \E intent \in Intents : calc = [stage |-> "intent", intent |-> intent]
    /\ proc = <<>> /\ scoreLog = <<>> /\ dedup = <<>>

\* CypherBuilderService.build(intent, userId); it has no throw
Build ==
    /\ calc.stage = "intent"
    /\ calc' = [stage |-> "built", intent |-> calc.intent, threw |-> FALSE,
                query |-> <<build(calc.intent, "u1")>>]
    /\ UNCHANGED <<graphVars, now, proc, scoreLog, dedup>>

NextBuild == Build

SpecBuild == InitBuild /\ [][NextBuild]_vars

\* C23: build surfaces a validation error and produces no query when the intent lacks a
\* filter its query type requires: an intro_path intent without a name filter is
\* rejected.
C23_MissingFilterRejected ==
    (calc.stage = "built" /\ calc.intent.queryType = "intro_path"
        /\ calc.intent.filters.name = <<>>)
    => (calc.threw /\ calc.query = <<>>)

----------------------------------------------------------------------------
(* The ingestion paths of a user and the incremental tokens of its           *)
(* connected_accounts row: SpecIngest.  proc is the metadata column of the   *)
(* row, scoreLog the completed jobs with the token each fetch returned,      *)
(* dedup the contacts of the last run, calc the last sync.                   *)

Sources == {"gmail", "google_contacts", "calendar"}

\* most ingestion runs of a behaviour
MaxRuns == 3

TokenKey(source) ==
    CASE source = "gmail" -> "gmail_history_id"
      [] source = "google_contacts" -> "contacts_sync_token"
      [] source = "calendar" -> "calendar_sync_token"

LastSyncKey(source) ==
    CASE source = "gmail" -> "last_gmail_sync"
      [] source = "google_contacts" -> "last_contacts_sync"
      [] source = "calendar" -> "last_calendar_sync"

\* account?.metadata?.[key]
StoredToken(metadata, source) ==
    IF TokenKey(source) \in DOMAIN metadata THEN <<metadata[TokenKey(source)]>> ELSE <<>>

metadataUpdate_merged(metadata, source, token, at) ==
    With(With(metadata, TokenKey(source), token), LastSyncKey(source), at)

\* .update({ metadata: { <token key>: token, <last sync key>: ... } }): the column is
\* set to the object given
metadataUpdate(metadata, source, token, at) ==
    With(With(<<>>, TokenKey(source), token), LastSyncKey(source), at)

RunsDone == Len(scoreLog)

InitIngest ==
    /\ persons = <<>> /\ knows = <<>> /\ users = {} /\ companies = {} /\ worksAt = {}
    /\ colleagues = {}
    /\ nextPerson = 1 /\ nextKnows = 1 /\ now = 0
    /\ proc = <<>> /\ scoreLog = <<>> /\ calc = <<>> /\ dedup = <<>>

\* executeGmailSync / executeContactsSync / executeCalendarSync: the stored token when
\* incremental, the fetch, batchIngestContacts of the fetched contacts, the token of
\* the fetch stored, the job completed
ExecuteSync(source) ==
    /\ RunsDone < MaxRuns
    /\ \E isIncremental \in BOOLEAN, contacts \in SyncBatches, token \in {<<>>, <<RunsDone + 1>>} :
          /\ \E g \in {batchIngestContacts(Graph, contacts, Importer, now)} : SetGraph(g)
          /\ proc' = IF token # <<>> THEN metadataUpdate(proc, source, token[1], RunsDone + 1)
                     ELSE proc
          /\ calc' = [source |-> source, isIncremental |-> isIncremental,
                      startToken |-> IF isIncremental THEN StoredToken(proc, source) ELSE <<>>]
          /\ dedup' = [path |-> source, contacts |-> contacts, deduped |-> <<>>,
                       ingested |-> contacts]
          /\ scoreLog' = Append(scoreLog, [job |-> source, status |-> "completed", token |-> token])
    /\ UNCHANGED now

\* a sync whose fetch throws: the job is failed, nothing is ingested or stored
ExecuteSyncFails(source) ==
    /\ RunsDone < MaxRuns
    /\ scoreLog' = Append(scoreLog, [job |-> source, status |-> "failed", token |-> <<>>])
    /\ UNCHANGED <<graphVars, now, proc, calc, dedup>>

\* processImportSync, and linkedinImportFunction when each of its steps succeeds:
\* deduplicateContacts, then batchIngestContacts of what it returned
ImportCsv(path) ==
    /\ RunsDone < MaxRuns
    /\ \E contacts \in SeqsUpTo(ImportContacts, MaxBatch), pick \in Picks :
          \E output \in {deduplicateContacts(Graph, contacts, Importer, pick)} :
             /\ \E g \in {batchIngestContacts(Graph, output, Importer, now)} : SetGraph(g)
             /\ dedup' = [path |-> path, contacts |-> contacts, deduped |-> <<output>>,
                          ingested |-> output]
    /\ scoreLog' = Append(scoreLog, [job |-> path, status |-> "completed", token |-> <<>>])
    /\ UNCHANGED <<now, proc, calc>>

NextIngest ==
    \/ \E source \in Sources : ExecuteSync(source)
    \/ \E source \in Sources : ExecuteSyncFails(source)
    \/ ImportCsv("csv_import_sync")
    \/ ImportCsv("csv_import_queued")

SpecIngest == InitIngest /\ [][NextIngest]_vars

\* C24: on every ingestion path deduplicateContacts has run on the batch before
\* batchIngestContacts, and the contacts ingested are exactly its output.
C24_DedupBeforeIngest ==
    dedup # <<>> => (dedup.deduped # <<>> /\ dedup.ingested = dedup.deduped[1])

\* the token returned by the fetch of the most recent completed sync of the source
\* that returned one
RECURSIVE LastTokenOf(_, _)
LastTokenOf(log, source) ==
    IF log = <<>> THEN <<>>
    ELSE LET e == log[Len(log)]
         IN  IF e.job = source /\ e.status = "completed" /\ e.token # <<>> THEN e.token
             ELSE LastTokenOf(SubSeq(log, 1, Len(log) - 1), source)

\* C27: for any order of syncs the token stored for each source is the one of the most
\* recent completed sync of that source (what an incremental sync of it starts from):
\* completing a sync of another source leaves it unchanged.
C27_TokensPerSource ==
    \A source \in Sources : StoredToken(proc, source) = LastTokenOf(scoreLog, source)

----------------------------------------------------------------------------
(* SearchService.search and its Redis cache: SpecSearch.  proc is the cache  *)
(* (key -> response and expiry), now the time in minutes, calc the last      *)
(* request with what it was answered.                                        *)

\* CACHE_TTL_SECONDS = 300, in minutes
CacheTtl == 5

\* the last minute of a behaviour
MaxMinutes == 7

SearchQueries == {"vps", "VPs ", "cto"}

\* query.toLowerCase().trim().replace(/\s+/g, ' ')
NormalizedQuery(query) == IF query = "VPs " THEN "vps" ELSE query

buildCacheKey_paged(userId, query, page, limit) == <<userId, NormalizedQuery(query), page, limit>>

\* buildCacheKey(userId, query): the page and the limit of the request are not part of it
buildCacheKey(userId, query, page, limit) == <<userId, NormalizedQuery(query)>>

\* the records the query of the request returns from the graph
AllResults(query) ==
    IF NormalizedQuery(query) = "vps" THEN <<"p1", "p2", "p3">> ELSE <<"p4">>

\* allResults.slice(startIndex, endIndex)
Slice(list, startIndex, endIndex) ==
    SubSeq(list, startIndex + 1, Min(endIndex, Len(list)))

Pages == {1, 2}
PageLimits == {1, 2}

InitSearch ==
    /\ persons = <<>> /\ knows = <<>> /\ users = {} /\ companies = {} /\ worksAt = {}
    /\ colleagues = {}
    /\ nextPerson = 1 /\ nextKnows = 1 /\ now = 0
    /\ proc = <<>> /\ scoreLog = <<>> /\ calc = <<>> /\ dedup = <<>>

\* the keys Redis still holds
LiveKeys == {k \in DOMAIN proc : now < proc[k].expires}

\* SearchService.search(query, userId, { page, limit })
Search ==
    /\ \E query \in SearchQueries, userId \in {Importer}, page \in Pages, limit \in PageLimits :
          LET cacheKey == buildCacheKey(userId, query, page, limit)
              request == [query |-> query, userId |-> userId, page |-> page, limit |-> limit]
          IN  IF cacheKey \in LiveKeys
              THEN /\ calc' = [request |-> request,
                               response |-> [proc[cacheKey].response EXCEPT !.cached = TRUE]]
                   /\ proc' = proc
              ELSE LET allResults == AllResults(query)
                       startIndex == (page - 1) * limit
                       response == [query |-> query,
                                    results |-> Slice(allResults, startIndex, startIndex + limit),
                                    totalResults |-> Len(allResults), cached |-> FALSE]
                   IN  /\ calc' = [request |-> request, response |-> response]
                       /\ proc' = With(proc, cacheKey,
                                       [response |-> response, expires |-> now + CacheTtl])
    /\ UNCHANGED <<graphVars, now, scoreLog, dedup>>

\* a minute passes; Redis drops the keys that expire
Minute ==
    /\ now < MaxMinutes
    /\ now' = now + 1
    /\ proc' = [k \in {x \in DOMAIN proc : now + 1 < proc[x].expires} |-> proc[k]]
    /\ UNCHANGED <<graphVars, scoreLog, calc, dedup>>

NextSearch == Search \/ Minute

SpecSearch == InitSearch /\ [][NextSearch]_vars

\* C25: the results returned for a request with page p and limit l are the slice
\* [(p-1)*l, p*l) of the full result list of its query, also when an earlier request for
\* the query with another page or limit was answered within the cache lifetime.
C25_PageIsSliceOfResults ==
    calc # <<>> =>
        calc.response.results =
            Slice(AllResults(calc.request.query), (calc.request.page - 1) * calc.request.limit,
                  calc.request.page * calc.request.limit)

----------------------------------------------------------------------------
(* A CSV import and its sync_jobs row: SpecImport.  calc is the row, proc    *)
(* the position of the import, dedup the result of the dedup-contacts step.  *)

\* retries: 2 of linkedinImportFunction
ImportRetries == 2

ImportSteps == {"parse-csv", "dedup-contacts", "ingest-to-graph", "finalize"}

InitImport ==
    /\ persons = <<>> /\ knows = <<>> /\ users = {} /\ companies = {} /\ worksAt = {}
    /\ colleagues = {}
    /\ nextPerson = 1 /\ nextKnows = 1 /\ now = 0
    /\ proc = [pc |-> "upload"] /\ scoreLog = <<>> /\ calc = <<>> /\ dedup = <<>>

\* what is left of a function run whose step threw: retried while the step has retries
\* left, else the run has failed; the function has no failure handler and the row of
\* the job is not written
afterThrow(p) ==
    IF p.attempt < ImportRetries THEN [p EXCEPT !.attempt = @ + 1]
    ELSE [p EXCEPT !.pc = "run-failed"]

\* importLinkedInCsv: createImportJob inserts the row as pending; small files are
\* processed in the request, larger ones queued
ImportLinkedInCsv ==
    /\ proc.pc = "upload"
    /\ \E contacts \in SeqsUpTo(ImportContacts, MaxBatch), queued \in BOOLEAN :
          proc' = [pc |-> IF queued THEN "parse-csv" ELSE "sync", attempt |-> 0,
                   contacts |-> contacts]
    /\ calc' = [job_type |-> "csv_import", status |-> "pending"]
    /\ UNCHANGED <<graphVars, now, scoreLog, dedup>>

\* a step of linkedinImportFunction throws
ImportStepThrows ==
    /\ proc.pc \in ImportSteps
    /\ proc' = afterThrow(proc)
    /\ UNCHANGED <<graphVars, now, scoreLog, calc, dedup>>

\* processImportSync: deduplicateContacts or batchIngestContacts throws; the catch
\* marks the job failed
ImportSyncThrows ==
    /\ proc.pc = "sync"
    /\ calc' = [calc EXCEPT !.status = "failed"]
    /\ proc' = [proc EXCEPT !.pc = "thrown"]
    /\ UNCHANGED <<graphVars, now, scoreLog, dedup>>

\* step parse-csv
ImportParse ==
    /\ proc.pc = "parse-csv"
    /\ proc' = [proc EXCEPT !.pc = "dedup-contacts", !.attempt = 0]
    /\ UNCHANGED <<graphVars, now, scoreLog, calc, dedup>>

\* step dedup-contacts
ImportDedup ==
    /\ proc.pc = "dedup-contacts"
    /\ \E pick \in Picks :
          \E output \in {deduplicateContacts(Graph, proc.contacts, Importer, pick)} :
             dedup' = output
    /\ proc' = [proc EXCEPT !.pc = "ingest-to-graph", !.attempt = 0]
    /\ UNCHANGED <<graphVars, now, scoreLog, calc>>

\* step ingest-to-graph
ImportIngest ==
    /\ proc.pc = "ingest-to-graph"
    /\ \E g \in {batchIngestContacts(Graph, dedup, Importer, now)} : SetGraph(g)
    /\ proc' = [proc EXCEPT !.pc = "finalize", !.attempt = 0]
    /\ UNCHANGED <<now, scoreLog, calc, dedup>>

\* step finalize: the job is completed
ImportFinalize ==
    /\ proc.pc = "finalize"
    /\ calc' = [calc EXCEPT !.status = "completed"]
    /\ proc' = [proc EXCEPT !.pc = "returned"]
    /\ UNCHANGED <<graphVars, now, scoreLog, dedup>>

\* processImportSync: deduplicateContacts, batchIngestContacts, the job completed
ImportSync ==
    /\ proc.pc = "sync"
    /\ \E pick \in Picks :
          \E output \in {deduplicateContacts(Graph, proc.contacts, Importer, pick)} :
             /\ \E g \in {batchIngestContacts(Graph, output, Importer, now)} : SetGraph(g)
             /\ dedup' = output
    /\ calc' = [calc EXCEPT !.status = "completed"]
    /\ proc' = [proc EXCEPT !.pc = "returned"]
    /\ UNCHANGED <<now, scoreLog>>

NextImport ==
    \/ ImportLinkedInCsv
    \/ ImportStepThrows \/ ImportSyncThrows
    \/ ImportParse \/ ImportDedup \/ ImportIngest \/ ImportFinalize
    \/ ImportSync

\* the request and the function run go on while they have a step to take
SpecImport == InitImport /\ [][NextImport]_vars /\ WF_vars(NextImport)

\* C26: every CSV import job created in sync_jobs eventually reaches a terminal status,
\* completed or failed, also when the steps of the queued import keep failing until the
\* retries are exhausted.
C26_JobReachesTerminalStatus ==
    (calc # <<>>) ~> (calc # <<>> /\ calc.status \in {"completed", "failed"})

----------------------------------------------------------------------------
(* The fuzzy lookups of deduplicateContacts for one placeholder contact, on  *)
(* graphs whose Persons have any of the names and companies: SpecLookup.     *)

\* Persons of a graph: the first with a work email, the second with a private one
LookupPersons(email) ==
    {NewPerson(Contact(email, NULL, firstName, lastName, NULL, company, NULL, NULL, "gmail"),
               ownerId) :
        firstName \in {NULL, "JOHN", "Ann"}, lastName \in {NULL, "Doe", "Roe"},
        company \in {NULL, "ACME", "Initech"}, ownerId \in Users}

LookupContacts ==
    {Contact("john.doe@linkedin.placeholder", "John Doe", firstName, lastName, NULL, company,
             "CTO", NULL, "linkedin") :
        firstName \in {NULL, "John"}, lastName \in {NULL, "Doe"}, company \in {NULL, "Acme"}}

InitLookup ==
    /\ \/ \E p \in LookupPersons("john@acme.com") : persons = <<p>>
       \/ \E p \in LookupPersons("john@acme.com"), q \in LookupPersons("bob@gmail.com") :
             persons = <<p, q>>
    /\ knows = <<>> /\ users = Users /\ companies = {} /\ worksAt = {} /\ colleagues = {}
    /\ nextPerson = Len(persons) + 1 /\ nextKnows = 1 /\ now = 0
    /\ proc = <<>> /\ scoreLog = <<>> /\ calc = <<>> /\ dedup = <<>>

\* deduplicateContacts for a batch of one placeholder contact; calc keeps what the
\* two fuzzy lookups return on the graph when the code reaches the second
LookupOne ==
    /\ calc = <<>>
    /\ \E contact \in LookupContacts, pick \in Picks :
          calc' = [contact |-> contact,
                   reachedStep3 |-> /\ contact.firstName # NULL /\ contact.company # NULL
                                    /\ contact.lastName # NULL
                                    /\ findByNameAndCompany(Graph, contact.firstName,
                                                            contact.company, Importer) = {},
                   byNameAndCompany |-> findByNameAndCompany(Graph, contact.firstName,
                                                              contact.company, Importer),
                   byDomainAndName |-> findByDomainAndName(Graph, contact.firstName,
                                                            contact.lastName, contact.company,
                                                            Importer),
                   entries |-> dedupEntries(Graph, <<contact>>, Importer, pick)]
    /\ UNCHANGED <<graphVars, now, proc, scoreLog, dedup>>

NextLookup == LookupOne

SpecLookup == InitLookup /\ [][NextLookup]_vars

----------------------------------------------------------------------------
(* What the contact list and the contact count of a user see, in Spec.       *)

\* getContactCount: MATCH (p:Person {ownerId: $userId}) RETURN count(p)
getContactCount(g, userId) ==
    Cardinality({id \in DOMAIN g.persons : g.persons[id].ownerId = userId})

\* the Persons of the rows of getContacts (and of scoreAllContacts):
\* MATCH (u:KueUser {id: $userId})-[r:KNOWS]->(p:Person {ownerId: $userId})
getContacts(g, userId) == {g.knows[e].to : e \in EdgesOf(g, userId)}

\* no batchIngestContacts call and no maintenance run is under way
Quiescent ==
    /\ \A w \in IngestWorkers : proc[w].pc \in {"idle", "done"}
    /\ proc["mt"].pc \in {"idle", "done"}

\* C29: after any sequence of batchIngestContacts calls (failed and skipped writes
\* included) and maintenance merges every Person of an owner has a KNOWS edge from the
\* owner, so getContactCount equals the number of contacts getContacts can see.
C29_CountMatchesContacts ==
    Quiescent =>
        /\ \A id \in DOMAIN persons : KnowsBetween(Graph, persons[id].ownerId, id) # {}
        /\ getContactCount(Graph, Owner) = Cardinality(getContacts(Graph, Owner))

----------------------------------------------------------------------------
(* The graphs the write operations of the repository produce: SpecWrites.   *)
(* Each action is one write operation of GraphService, EnrichmentService,   *)
(* ScoringService or DedupService, called for either user with any contact; *)
(* concurrent MERGEs of one Person may both create (the store has no        *)
(* uniqueness constraint).  calc counts the writes; proc, scoreLog and      *)
(* dedup are not used.                                                      *)

\* most writes of a behaviour
MaxWrites == 6

InitWrites ==
    /\ persons = <<>> /\ knows = <<>> /\ users = {} /\ companies = {} /\ worksAt = {}
    /\ colleagues = {}
    /\ nextPerson = 1 /\ nextKnows = 1 /\ now = 0
    /\ proc = <<>> /\ scoreLog = <<>> /\ calc = 0 /\ dedup = <<>>

\* one write that leaves the store as g
Written(g) ==
    /\ calc < MaxWrites
    /\ SetGraph(g)
    /\ calc' = calc + 1
    /\ UNCHANGED <<now, proc, scoreLog, dedup>>

WriteEnsureKueUser == \E userId \in Users : Written(ensureKueUser(Graph, userId))

WriteUpsertPerson ==
    \E userId \in Users, contact \in RaceContacts :
       /\ nextPerson <= MaxPersons
       /\ \E g \in {upsertPerson(Graph, contact, userId),
                    upsertPersonWrite(Graph, contact, userId, {})} : Written(g)

WriteUpsertKnows ==
    \E userId \in Users, contact \in RaceContacts :
       \E g \in {upsertKnowsRelationship(Graph, userId, contact.email, contact.source, now)} :
          Written(g)

WriteUpsertCompany ==
    \E contact \in {c \in RaceContacts : c.company # NULL} :
       Written(upsertCompany(Graph, contact.company, extractDomain(contact.email)))

WriteUpsertWorksAt ==
    \E userId \in Users, contact \in {c \in RaceContacts : c.company # NULL} :
       Written(upsertWorksAt(Graph, contact.email, contact.company, userId))

WriteEnrichment ==
    \E personId \in DOMAIN persons :
       Written(executeEnrichment(Graph, personId, persons[personId].ownerId))

WriteScores ==
    \E userId \in Users :
       /\ EdgesOf(Graph, userId) # {}
       /\ \E scores \in {allScoresOf(Graph, userId, now)} :
             \E g \in {batchUpdateScores(Graph, userId, scores, DOMAIN scores, now)} : Written(g)

WriteMerge ==
    \E userId \in Users :
       /\ DupGroups(Graph, userId) # {}
       /\ \E queue \in MergeQueues(Graph, userId) :
             \E g \in {mergeQueue(Graph, queue, Len(queue), userId)} : Written(g)

NextWrites ==
    \/ WriteEnsureKueUser \/ WriteUpsertPerson \/ WriteUpsertKnows
    \/ WriteUpsertCompany \/ WriteUpsertWorksAt
    \/ WriteEnrichment \/ WriteScores \/ WriteMerge

SpecWrites == InitWrites /\ [][NextWrites]_vars

\* node ids as the store's strings
NodeId(id) == ToString(id)

\* the store with its Person ids as strings, as the traversal queries take them
AsStore(g) ==
    [g EXCEPT !.persons = [n \in {NodeId(id) : id \in DOMAIN g.persons} |->
                              g.persons[CHOOSE id \in DOMAIN g.persons : NodeId(id) = n]],
              !.knows = [e \in DOMAIN g.knows |-> [g.knows[e] EXCEPT !.to = NodeId(@)]],
              !.worksAt = {<<NodeId(x[1]), x[2]>> : x \in g.worksAt}]

\* TraverseService.findIntroPath: the values it may return
findIntroPath(g, userId, targetPersonId) ==
    {introPathOf(g, record) : record \in introPathRecords(g, userId, targetPersonId)}

\* every relationship of a Person is a KNOWS from its owner or a WORKS_AT to a company
OnlyOwnerAndCompanies(g) ==
    /\ g.colleagues = {}
    /\ \A e \in DOMAIN g.knows :
          /\ g.knows[e].from \in g.users
          /\ g.knows[e].to \in DOMAIN g.persons
          /\ g.persons[g.knows[e].to].ownerId = g.knows[e].from
    /\ \A x \in g.worksAt : x[1] \in DOMAIN g.persons /\ x[2] \in g.companies

\* C30: in every graph the write operations produce, each Person is connected only
\* to its owner and to companies, findSecondDegree returns the empty list for every
\* user, and findIntroPath returns null or a path of one hop.
C30_NoSecondDegreeReachable ==
    /\ OnlyOwnerAndCompanies(Graph)
    /\ \A userId \in Users :
          /\ \A limit \in Limits, minStrength \in MinStrengths :
                findSecondDegree(AsStore(Graph), userId, limit, minStrength) = {<<>>}
          /\ \A id \in DOMAIN persons :
                \A path \in findIntroPath(AsStore(Graph), userId, NodeId(id)) :
                   path = <<>> \/ path[1].via = <<>>

\* a user knows two contacts of its own and gets a path of one hop to each; another
\* user owns a Person of the same email and gets no path to the first user's contacts
C30_Witness ==
    /\ Users \subseteq users
    /\ Cardinality(EdgesOf(Graph, "u1")) = 2
    /\ \E id \in DOMAIN persons : persons[id].ownerId = "u2"
    /\ \A id \in DOMAIN persons :
          persons[id].ownerId = "u1" =>
             /\ \A path \in findIntroPath(AsStore(Graph), "u1", NodeId(id)) :
                   path # <<>> /\ path[1].via = <<>> /\ path[1].to = NodeId(id)
             /\ findIntroPath(AsStore(Graph), "u2", NodeId(id)) = {<<>>}

====
